---------------------------- MODULE Spec2Model ----------------------------
(***************************************************************************)
(* A model of nfreconfig-mcp-server: the patch engine over schemaless      *)
(* configuration trees (manifest_patch_cucp_ips) and the bounded           *)
(* concurrency git delivery (git.clone_or_open_many, git_commit_push).     *)
(*                                                                         *)
(* Go strings are sequences of tokens (a token is a TLA+ string), so that  *)
(* strings.TrimSpace, the suffix stripping of sameRepoURL and the regular  *)
(* expressions are computed, not assumed.                                  *)
(***************************************************************************)
EXTENDS Integers, Sequences, FiniteSets, TLC

VARIABLES
    \* ---- patch engine (manifest_patch_cucp_ips) ----
    fs,         \* the files on disk: path -> file content
    newIps,     \* the interface -> {address, gateway} map of the calls
    ptargets,   \* the targets of the calls
    last,       \* the last patch call: inputs, disk before, results, disk after
    prev,       \* the patch call before it
    ncalls,     \* number of patch calls made
    \* ---- git delivery (clone_or_open_many / commit_push) ----
    req,        \* the request of the batch call
    hpc,        \* where the handler is: start, dispatch, wait, returned, rejected
    repos,      \* the targets the handler kept after validation
    con,        \* the capacity of the admission semaphore
    nexti,      \* index of the next target the dispatch loop starts
    sem,        \* number of tokens held in the semaphore channel
    wk,         \* worker of target i: its position and its result so far
    results,    \* the pre-sized result slice
    disk,       \* working directory -> state of the git repository in it
    cancelled,  \* the caller's context is done
    askpass,    \* the credential helper file exists
    nextCommit, \* next fresh commit id
    disk0,      \* history: the working directories when the call began
    \* ---- scans (scan_manifests / cluster topology) ----
    scan,       \* the scan called: its parameters and what it reads
    scanOut     \* what the scan returned

varsP == <<fs, newIps, ptargets, last, prev, ncalls>>
varsG == <<req, hpc, repos, con, nexti, sem, wk, results, disk, cancelled,
           askpass, nextCommit, disk0>>
varsS == <<scan, scanOut>>
vars == <<fs, newIps, ptargets, last, prev, ncalls, req, hpc, repos, con, nexti, sem,
          wk, results, disk, cancelled, askpass, nextCommit, disk0, scan, scanOut>>

-----------------------------------------------------------------------------
(* Go strings *)

SP == " "
Empty == <<>>

RECURSIVE TrimLeft(_)
TrimLeft(s) == IF s # <<>> /\ Head(s) = SP THEN TrimLeft(Tail(s)) ELSE s

RECURSIVE TrimRight(_)
TrimRight(s) ==
    IF s # <<>> /\ s[Len(s)] = SP THEN TrimRight(SubSeq(s, 1, Len(s) - 1)) ELSE s

\* strings.TrimSpace
TrimSpace(s) == TrimRight(TrimLeft(s))

\* strings.Trim(s, "\"'"): quote characters cut from both ends
QuoteTokens == {"'", "\""}

RECURSIVE TrimQuotes(_)
TrimQuotes(s) ==
    IF s # <<>> /\ Head(s) \in QuoteTokens THEN TrimQuotes(Tail(s))
    ELSE IF s # <<>> /\ s[Len(s)] \in QuoteTokens
         THEN TrimQuotes(SubSeq(s, 1, Len(s) - 1))
         ELSE s

\* cleanPath(s)
cleanPath(s) == TrimQuotes(TrimSpace(s))

\* strings.TrimSuffix(s, suffix) for a one-token suffix
TrimSuffix(s, tok) ==
    IF s # <<>> /\ s[Len(s)] = tok THEN SubSeq(s, 1, Len(s) - 1) ELSE s

\* The tokens the two regular expressions match.  A CIDR token holds a dotted
\* quad, so ipv4Re matches it too.
CidrTokens == {"10.0.0.5/24", "10.0.1.5/24", "10.9.9.9/24"}
Ipv4Tokens == {"10.0.0.1", "10.0.1.1", "10.9.9.1", "10.0.0.5", "10.0.1.5", "10.9.9.9"}

\* the dotted quad inside a CIDR token
CidrHost(tok) ==
    CASE tok = "10.0.0.5/24" -> "10.0.0.5"
      [] tok = "10.0.1.5/24" -> "10.0.1.5"
      [] tok = "10.9.9.9/24" -> "10.9.9.9"

\* cidrRe.FindAllString(s, -1) / ipv4Re.FindAllString(s, -1): the matches in
\* the order of the text, repeated when the text repeats them
RECURSIVE cidrReFindAll(_)
cidrReFindAll(s) ==
    IF s = <<>> THEN <<>>
    ELSE (IF Head(s) \in CidrTokens THEN <<Head(s)>> ELSE <<>>) \o cidrReFindAll(Tail(s))

RECURSIVE ipv4ReFindAll(_)
ipv4ReFindAll(s) ==
    IF s = <<>> THEN <<>>
    ELSE (IF Head(s) \in CidrTokens THEN <<CidrHost(Head(s))>>
          ELSE IF Head(s) \in Ipv4Tokens THEN <<Head(s)>> ELSE <<>>)
         \o ipv4ReFindAll(Tail(s))

\* sort.Strings: the order of the address strings
StringOrder ==
    <<"10.0.0.1", "10.0.0.5", "10.0.0.5/24", "10.0.1.1", "10.0.1.5", "10.0.1.5/24",
      "10.9.9.1", "10.9.9.9", "10.9.9.9/24">>
RankOf(x) == CHOOSE i \in 1..Len(StringOrder) : StringOrder[i] = x

RECURSIVE InsertSorted(_, _)
InsertSorted(l, x) ==
    IF l = <<>> THEN <<x>>
    ELSE IF RankOf(x) < RankOf(Head(l)) THEN <<x>> \o l
    ELSE <<Head(l)>> \o InsertSorted(Tail(l), x)

RECURSIVE SortStrings(_)
SortStrings(l) == IF l = <<>> THEN <<>> ELSE InsertSorted(SortStrings(Tail(l)), Head(l))

\* cidrRe.MatchString / ipv4Re.MatchString on a plain string
cidrReMatch(s) == \E i \in 1..Len(s) : s[i] \in CidrTokens
ipv4ReMatch(s) == \E i \in 1..Len(s) : s[i] \in CidrTokens \cup Ipv4Tokens

-----------------------------------------------------------------------------
(* The untyped document tree (map[string]any, []any, scalars) *)

Str(s)  == [t |-> "str", s |-> s]        \* a string
Num(n)  == [t |-> "num", n |-> n]        \* any non-string scalar
Map(m)  == [t |-> "map", m |-> m]        \* map[string]any
List(l) == [t |-> "seq", l |-> l]        \* []any
\* a string whose text is a JSON object; canon: compact, keys sorted
JStr(v, c) == [t |-> "jstr", v |-> v, canon |-> c]

IsString(v) == v.t \in {"str", "jstr"}
IsMap(v) == v.t = "map"

\* a map from a set of <<key, value>> pairs with distinct keys
MkMap(pairs) ==
    Map([k \in {p[1] : p \in pairs} |-> (CHOOSE p \in pairs : p[1] = k)[2]])

Has(v, k) == IsMap(v) /\ k \in DOMAIN v.m

\* v.(string) compared with a Go string
StrIs(v, s) == v.t = "str" /\ v.s = s

\* the text of a string value, trimmed; JSON text is one opaque token
TextOf(v) == IF v.t = "str" THEN TrimSpace(v.s) ELSE <<"{json}">>

RECURSIVE JsonHasTok(_, _)
JsonHasTok(v, toks) ==
    CASE v.t = "str"  -> \E i \in 1..Len(v.s) : v.s[i] \in toks
      [] v.t = "jstr" -> JsonHasTok(v.v, toks)
      [] v.t = "map"  -> \E k \in DOMAIN v.m : JsonHasTok(v.m[k], toks)
      [] v.t = "seq"  -> \E i \in 1..Len(v.l) : JsonHasTok(v.l[i], toks)
      [] OTHER -> FALSE

\* the regular expressions on a string value (JSON text shows its leaves)
ValCidrMatch(v) == JsonHasTok(v, CidrTokens)
ValIpv4Match(v) == JsonHasTok(v, CidrTokens \cup Ipv4Tokens)

RECURSIVE GetAt(_, _)
GetAt(d, path) ==
    IF path = <<>> THEN d
    ELSE IF d.t = "map" THEN GetAt(d.m[Head(path)], Tail(path))
    ELSE GetAt(d.l[Head(path)], Tail(path))

RECURSIVE SetAt(_, _, _)
SetAt(d, path, v) ==
    IF path = <<>> THEN v
    ELSE IF d.t = "map"
         THEN Map([d.m EXCEPT ![Head(path)] = SetAt(d.m[Head(path)], Tail(path), v)])
         ELSE List([d.l EXCEPT ![Head(path)] = SetAt(d.l[Head(path)], Tail(path), v)])


-----------------------------------------------------------------------------
(* walkAny: the depth-first walk.  A walk state is the document being      *)
(* mutated in place and the changed flag of the visitor's closure.  Go      *)
(* ranges over a map in an unspecified order, so a walk yields the set of   *)
(* the states some order of the keys produces.                              *)

WalkState(d, ch) == [d |-> d, ch |-> ch]

\* an assignment that does not ask whether the key is there
SetAlways(s, path, key, want) ==
    LET parent == GetAt(s.d, path) IN
    IF want = Empty \/ (Has(parent, key) /\ StrIs(parent.m[key], want)) THEN s
    ELSE WalkState(SetAt(s.d, path,
                         Map([k \in DOMAIN parent.m \cup {key} |->
                                IF k = key THEN Str(want) ELSE parent.m[k]])), TRUE)

\* if a, ok := parent[key].(string); ok && want != "" && a != want { parent[key] = want; changed = true }
SetIfDiffers(s, path, key, want) ==
    LET parent == GetAt(s.d, path) IN
    IF /\ Has(parent, key)
       /\ IsString(parent.m[key])
       /\ want # Empty
       /\ ~StrIs(parent.m[key], want)
    THEN WalkState(SetAt(s.d, path \o <<key>>, Str(want)), TRUE)
    ELSE s

\* the visitor of patchByInterfaceContext
PatchCtxVisit(s, path, key, ips) ==
    LET parent == GetAt(s.d, path)
        val    == parent.m[key]
        iface  == TextOf(val)
    IN  IF key # "name" \/ ~IsString(val) \/ iface \notin DOMAIN ips THEN s
        ELSE LET ip == ips[iface]
                 s1 == SetIfDiffers(s, path, "address", ip.address)
                 s2 == SetIfDiffers(s1, path, "gateway", ip.gateway)
             IN  IF Has(parent, "ipv4") /\ IsMap(parent.m["ipv4"])
                 THEN SetIfDiffers(
                        SetIfDiffers(s2, path \o <<"ipv4">>, "address", ip.address),
                        path \o <<"ipv4">>, "gateway", ip.gateway)
                 ELSE s2

\* iface, _ := parent["name"].(string); iface = strings.TrimSpace(iface)
ParentIface(parent) ==
    IF Has(parent, "name") /\ IsString(parent.m["name"])
    THEN TextOf(parent.m["name"]) ELSE Empty

\* the visitor of patchStringFieldsInMap
PatchStrVisit(s, path, key, ips) ==
    LET parent == GetAt(s.d, path)
        val    == parent.m[key]
        iface  == ParentIface(parent)
    IN  IF ~IsString(val) \/ iface \notin DOMAIN ips THEN s
        ELSE IF /\ key = "address"
                /\ ValCidrMatch(val)
                /\ ips[iface].address # Empty
                /\ TextOf(val) # ips[iface].address
        THEN WalkState(SetAt(s.d, path \o <<key>>, Str(ips[iface].address)), TRUE)
        ELSE IF /\ key = "gateway"
                /\ ValIpv4Match(val)
                /\ ips[iface].gateway # Empty
                /\ TextOf(val) # ips[iface].gateway
        THEN WalkState(SetAt(s.d, path \o <<key>>, Str(ips[iface].gateway)), TRUE)
        ELSE s

\* the keys along a path; the "[i]" elements of lists match no pattern
RECURSIVE PathKeys(_, _)
PathKeys(d, path) ==
    IF path = <<>> THEN <<>>
    ELSE IF d.t = "map"
         THEN <<Head(path)>> \o PathKeys(d.m[Head(path)], Tail(path))
         ELSE PathKeys(d.l[Head(path)], Tail(path))

\* the keys of the documents by the patterns extractNetworkInterfaces looks
\* for: key == "name" || "interfaceName" || "interface"; a path element whose
\* lower case contains "interface" or "network"; the 5G names; the 5G names
\* and prefixes; a key whose lower case contains "ip", "subnet", "gateway" or
\* "cidr"; those and "address"
NameKeys == {"name", "interfaceName", "interface"}
IfacePathKeys == {"interfaces", "interface", "interfaceName", "networks"}
FiveGNames == {"n2", "n3", "n4", "n6"}
FiveGKeys == FiveGNames \cup {"n2_ip", "n3_ip"}
ParentHintKeys == {"ipv4", "ipAddress", "subnet", "gateway", "cidr", "n2_ip", "n3_ip"}
AddressLikeKeysWithoutAddress == ParentHintKeys
AddressLikeKeys == ParentHintKeys \cup {"address"}

\* the text of a string value; of JSON text, the strings in it
RECURSIVE StringText(_)
RECURSIVE MapText(_, _)
RECURSIVE ListText(_, _)
StringText(v) ==
    CASE v.t = "str"  -> v.s
      [] v.t = "jstr" -> StringText(v.v)
      [] v.t = "map"  -> MapText(v.m, DOMAIN v.m)
      [] v.t = "seq"  -> ListText(v.l, 1)
      [] OTHER -> <<>>
MapText(m, rem) ==
    IF rem = {} THEN <<>>
    ELSE LET k == CHOOSE x \in rem : TRUE
         IN  StringText(m[k]) \o MapText(m, rem \ {k})
ListText(l, i) == IF i > Len(l) THEN <<>> ELSE StringText(l[i]) \o ListText(l, i + 1)

\* if !seen[x] { list = append(list, x); seen[x] = true }
SeenNever(l, x) == FALSE
Seen(l, x) == \E i \in 1..Len(l) : l[i] = x

RECURSIVE AppendUnseen(_, _)
AppendUnseen(l, xs) ==
    IF xs = <<>> THEN l
    ELSE AppendUnseen(IF Seen(l, Head(xs)) THEN l ELSE Append(l, Head(xs)), Tail(xs))

NoAddrs == [cidrs |-> <<>>, ips |-> <<>>]

\* the CIDRs and IPs of a text added to a pair of lists
AddText(a, text) ==
    [cidrs |-> AppendUnseen(a.cidrs, cidrReFindAll(text)),
     ips   |-> AppendUnseen(a.ips, ipv4ReFindAll(text))]

\* interfaceMap[name] created when absent, the addresses of a text added
AddToIface(acc, name, text) ==
    [n \in DOMAIN acc \cup {name} |->
        IF n = name THEN AddText(IF name \in DOMAIN acc THEN acc[name] ELSE NoAddrs, text)
        ELSE acc[n]]

\* for k, v := range parent: the strings under address-like keys
RECURSIVE AddFromParent(_, _, _, _)
AddFromParent(acc, name, parent, rem) ==
    IF rem = {} THEN acc
    ELSE LET k == CHOOSE x \in rem : TRUE
             a == IF IsString(parent.m[k]) /\ k \in AddressLikeKeys
                  THEN AddToIface(acc, name, StringText(parent.m[k]))
                  ELSE acc
         IN  AddFromParent(a, name, parent, rem \ {k})

\* for _, p := range path: the 5G names in the path
RECURSIVE AddFromPath(_, _, _)
AddFromPath(acc, keys, val) ==
    IF keys = <<>> THEN acc
    ELSE AddFromPath(
           IF Head(keys) \in FiveGKeys
           THEN AddToIface(acc, <<Head(keys)>>,
                           IF IsString(val) THEN StringText(val) ELSE <<>>)
           ELSE acc,
           Tail(keys), val)

\* the visitor of extractNetworkInterfaces
IfaceVisit(s, path, key) ==
    LET parent == GetAt(s.d, path)
        val    == parent.m[key]
        keys   == PathKeys(s.d, path)
        named  == key \in NameKeys /\ IsString(val) /\ StringText(val) # Empty
        ifName == IF named /\ (\/ \E i \in 1..Len(keys) :
                                     keys[i] \in IfacePathKeys \cup FiveGNames
                               \/ \E pk \in DOMAIN parent.m : pk \in ParentHintKeys)
                  THEN StringText(val) ELSE Empty
        a1     == IF ifName # Empty
                  THEN AddFromParent(AddToIface(s.acc, ifName, <<>>), ifName, parent,
                                     DOMAIN parent.m)
                  ELSE s.acc
    IN  [s EXCEPT !.acc = AddFromPath(a1, keys, val)]

\* the visitor of extractAllCIDRsAndIPv4Strings
FlatVisit(s, path, key) ==
    LET val == GetAt(s.d, path).m[key]
    IN  IF IsString(val) THEN [s EXCEPT !.acc = AddText(s.acc, StringText(val))] ELSE s

Visit(mode, s, path, key, ips) ==
    CASE mode = "ctx"    -> PatchCtxVisit(s, path, key, ips)
      [] mode = "str"    -> PatchStrVisit(s, path, key, ips)
      [] mode = "ifaces" -> IfaceVisit(s, path, key)
      [] mode = "flat"   -> FlatVisit(s, path, key)

RECURSIVE WalkVal(_, _, _, _)
RECURSIVE WalkKeys(_, _, _, _, _)
RECURSIVE WalkElems(_, _, _, _, _)

\* rec(path, cur) of walkAny
WalkVal(s, path, mode, ips) ==
    LET cur == GetAt(s.d, path) IN
    CASE cur.t = "map" -> WalkKeys(s, path, DOMAIN cur.m, mode, ips)
      [] cur.t = "seq" -> WalkElems({s}, path, 1, mode, ips)
      [] OTHER -> {s}

\* for k, vv := range x { fn(path, k, x, vv); rec(append(path, k), vv) }
WalkKeys(s, path, rem, mode, ips) ==
    IF rem = {} THEN {s}
    ELSE UNION { UNION { WalkKeys(s2, path, rem \ {k}, mode, ips) :
                         s2 \in WalkVal(Visit(mode, s, path, k, ips),
                                        path \o <<k>>, mode, ips) } :
                 k \in rem }

\* for i, vv := range x { rec(append(path, "[i]"), vv) }
WalkElems(S, path, i, mode, ips) ==
    IF \A s \in S : i > Len(GetAt(s.d, path).l) THEN S
    ELSE WalkElems(UNION { WalkVal(s, path \o <<i>>, mode, ips) : s \in S },
                   path, i + 1, mode, ips)

walkAny(d, mode, ips) == WalkVal(WalkState(d, FALSE), <<>>, mode, ips)

\* a walk that collects into acc
Collect(d, mode, acc) ==
    { s.acc : s \in WalkVal([d |-> d, ch |-> FALSE, acc |-> acc], <<>>, mode, <<>>) }

\* sort.Slice by name: the order of the interface names
NameOrder ==
    << <<SP, "n2">>, <<"eth0">>, <<"n2">>, <<"n2_ip">>, <<"n3">>, <<"n3_ip">> >>

NetworkInterface(name, a) == [name |-> name, cidrs |-> a.cidrs, ips |-> a.ips]

\* the end of extractNetworkInterfaces: the interfaces with an address, their
\* lists sorted, in the order of their names
RECURSIVE SortedInterfaces(_, _)
SortedInterfaces(acc, i) ==
    IF i > Len(NameOrder) THEN <<>>
    ELSE LET n == NameOrder[i]
         IN  (IF n \in DOMAIN acc /\ (acc[n].cidrs # <<>> \/ acc[n].ips # <<>>)
              THEN <<NetworkInterface(n, [cidrs |-> SortStrings(acc[n].cidrs),
                                         ips |-> SortStrings(acc[n].ips)])>>
              ELSE <<>>) \o SortedInterfaces(acc, i + 1)

\* extractNetworkInterfaces(obj): the possible results
extractNetworkInterfaces(obj) ==
    { SortedInterfaces(acc, 1) : acc \in Collect(obj, "ifaces", <<>>) }

\* extractAllCIDRsAndIPv4Strings(obj): the possible (cidrs, ips)
extractAllCIDRsAndIPv4Strings(obj) == Collect(obj, "flat", NoAddrs)

\* patchByInterfaceContext(obj, newIPs): the possible (obj, changed)
patchByInterfaceContext(obj, ips) == walkAny(obj, "ctx", ips)

\* patchStringFieldsInMap(m, newIPs): the possible (m, changed)
patchStringFieldsInMap(m, ips) == walkAny(m, "str", ips)

\* tryParseJSONConfigString: ok exactly for a string holding a JSON object
IsJSONConfig(cfg) == cfg.t = "jstr"

\* string(json.Marshal(jm))
JSONMarshal(jm) == JStr(jm, TRUE)

\* patchNADSpecConfig(obj, newIPs): the possible (obj, changed).
\* unstructured.NestedMap returns a deep copy of obj["spec"]; the copy
\* reaches obj again only through obj["spec"] = spec.
patchNADSpecConfig(obj, ips) ==
    IF ~(Has(obj, "spec") /\ IsMap(obj.m["spec"])) THEN {WalkState(obj, FALSE)}
    ELSE LET spec == obj.m["spec"] IN
         IF ~(Has(spec, "config") /\ IsString(spec.m["config"]))
             \/ TextOf(spec.m["config"]) = Empty
         THEN {WalkState(obj, FALSE)}
         ELSE IF ~IsJSONConfig(spec.m["config"])
         THEN { WalkState(obj, s.ch) : s \in patchStringFieldsInMap(spec, ips) }
         ELSE LET jm  == spec.m["config"].v
                  S1  == patchByInterfaceContext(jm, ips)
                  S2  == UNION { { WalkState(s2.d, s2.ch \/ s1.ch) :
                                   s2 \in patchStringFieldsInMap(s1.d, ips) } :
                                 s1 \in S1 }
              IN  { IF s.ch
                    THEN WalkState(SetAt(obj, <<"spec", "config">>, JSONMarshal(s.d)), TRUE)
                    ELSE WalkState(obj, FALSE) : s \in S2 }


-----------------------------------------------------------------------------
(* Files on disk and their YAML text *)

\* no file at the path
Missing == [exists |-> FALSE, parses |-> FALSE, docs |-> <<>>, canon |-> FALSE]
\* a file yaml.Unmarshal rejects (also what a truncated write leaves)
Garbage == [exists |-> TRUE, parses |-> FALSE, docs |-> <<>>, canon |-> FALSE]
\* a YAML text holding the documents docs; canon: exactly as yaml.Marshal
\* prints its first document (keys sorted, no comments, one document)
YamlText(docs, c) == [exists |-> TRUE, parses |-> TRUE, docs |-> docs, canon |-> c]

\* yaml.Marshal(obj), with the trailing newline
YamlMarshal(obj) == YamlText(<<obj>>, TRUE)

\* yaml.Unmarshal(b, &m): the first document of the text; nil for an empty text
YamlUnmarshal(c) == IF c.docs = <<>> THEN Map(<<>>) ELSE c.docs[1]

TmpSuffix == ".tmp"

\* filepath.Join(cleanPath(workdir), strings.TrimSpace(rel))
absJoin(workdir, rel) == cleanPath(workdir) \o TrimSpace(rel)

\* readYAMLFile(absPath): the document, or an error
readYAMLFile(f, abs) ==
    IF ~f[abs].exists \/ ~f[abs].parses
    THEN [err |-> TRUE, obj |-> Map(<<>>)]
    ELSE [err |-> FALSE, obj |-> YamlUnmarshal(f[abs])]

\* a write that opens the target itself: a failure part way leaves it cut
writeYAMLFileInPlace(f, abs, obj) ==
    { [fs |-> [f EXCEPT ![abs] = YamlMarshal(obj)], err |-> FALSE],
      [fs |-> f, err |-> TRUE],
      [fs |-> [f EXCEPT ![abs] = Garbage], err |-> TRUE] }

\* writeYAMLFile(absPath, obj): the possible (files, error).  os.WriteFile
\* of the temp file can fail before or after it created the file, and
\* os.Rename can fail leaving the temp file behind.
writeYAMLFile(f, abs, obj) ==
    LET tmp == abs \o <<TmpSuffix>> IN
    { [fs |-> [f EXCEPT ![abs] = YamlMarshal(obj), ![tmp] = Missing], err |-> FALSE],
      [fs |-> f, err |-> TRUE],
      [fs |-> [f EXCEPT ![tmp] = Garbage], err |-> TRUE],
      [fs |-> [f EXCEPT ![tmp] = YamlMarshal(obj)], err |-> TRUE] }

\* u.GetKind()
GetKind(obj) ==
    IF Has(obj, "kind") /\ obj.m["kind"].t = "str" THEN obj.m["kind"].s ELSE Empty

KindNFDeployment == <<"NFDeployment">>
KindNAD == <<"NetworkAttachmentDefinition">>

-----------------------------------------------------------------------------
(* manifest_patch_cucp_ips: the handler *)

PatchResult(t, changed, error) ==
    [repo |-> TrimSpace(t.repo), file |-> TrimSpace(t.file),
     changed |-> changed, error |-> error]

\* a handler that forgets the dry-run flag
ShouldWriteIgnoringDryRun(changed, dry) == changed

\* if changed && !params.Arguments.DryRun
ShouldWrite(changed, dry) == changed /\ ~dry

\* a handler that reports a change only when it wrote the file
ReportedChangedOnlyIfWritten(changed, dry) == changed /\ ~dry

\* r.Changed = changed
ReportedChanged(changed, dry) == changed

\* the in-memory patch of one document: the possible (obj, changed)
PatchDocument(obj, tkind, ips) ==
    LET kind == IF tkind = Empty THEN GetKind(obj) ELSE tkind
        S1 == IF kind = KindNFDeployment
              THEN patchByInterfaceContext(obj, ips)
              ELSE {WalkState(obj, FALSE)}
    IN  IF kind = KindNAD
        THEN UNION { { WalkState(s2.d, s2.ch \/ s1.ch) :
                       s2 \in patchNADSpecConfig(s1.d, ips) } : s1 \in S1 }
        ELSE S1

\* one iteration of the loop over the targets: the possible (files, result)
PatchOne(f, t, ips, dry) ==
    LET abs == absJoin(t.workdir, t.file)
        rd  == readYAMLFile(f, abs)
    IN  IF rd.err THEN { [fs |-> f, res |-> PatchResult(t, FALSE, "read yaml")] }
        ELSE UNION {
               IF ShouldWrite(s.ch, dry)
               THEN { [fs |-> w.fs,
                       res |-> IF w.err THEN PatchResult(t, FALSE, "write yaml")
                               ELSE PatchResult(t, ReportedChanged(s.ch, dry), "")] :
                      w \in writeYAMLFile(f, abs, s.d) }
               ELSE { [fs |-> f, res |-> PatchResult(t, ReportedChanged(s.ch, dry), "")] } :
               s \in PatchDocument(rd.obj, t.kind, ips) }

RECURSIVE PatchLoop(_, _, _, _, _)
PatchLoop(S, targets, i, ips, dry) ==
    IF i > Len(targets) THEN S
    ELSE PatchLoop(
           UNION { { [fs |-> o.fs, results |-> Append(s.results, o.res)] :
                     o \in PatchOne(s.fs, targets[i], ips, dry) } : s \in S },
           targets, i + 1, ips, dry)

\* the handler: the possible (files, results, tool error)
ManifestPatchCucpIPsMany(f, targets, ips, dry) ==
    IF Len(targets) = 0 \/ DOMAIN ips = {}
    THEN { [fs |-> f, results |-> <<>>, toolErr |-> TRUE] }
    ELSE { [fs |-> s.fs, results |-> s.results, toolErr |-> FALSE] :
           s \in PatchLoop({[fs |-> f, results |-> <<>>]}, targets, 1, ips, dry) }


-----------------------------------------------------------------------------
(* The documents, interface maps and targets the patch calls are tried on *)

MaxCalls == 2

OldAddr == <<"10.9.9.9/24">>
OldGw   == <<"10.9.9.1">>
N2Addr  == <<"10.0.0.5/24">>
N2Gw    == <<"10.0.0.1">>
N3Addr  == <<"10.0.1.5/24">>
N3Gw    == <<"10.0.1.1">>

IPInfo(a, g) == [address |-> a, gateway |-> g]

\* newIps of the calls: one interface; two interfaces; an address with a
\* trailing blank and no gateway
IpsChoices ==
    { [k \in {<<"n2">>} |-> IPInfo(N2Addr, N2Gw)],
      [k \in {<<"n2">>, <<"n3">>} |->
          IF k = <<"n2">> THEN IPInfo(N2Addr, N2Gw) ELSE IPInfo(N3Addr, N3Gw)],
      [k \in {<<"n2">>} |-> IPInfo(N2Addr \o <<SP>>, Empty)] }

Opt(key, vals) == { {<<key, v>>} : v \in vals } \cup { {} }

AddrVals == { Str(OldAddr), Str(N2Addr) }
Ipv4Vals == { MkMap({<<"address", Str(OldAddr)>>}),
              MkMap({<<"name", Str(<<"n3">>)>>, <<"address", Str(OldAddr)>>}) }

\* an interface entry: a name, an address with its gateway
Iface(n, a) == MkMap({<<"name", Str(n)>>, <<"address", Str(a)>>, <<"gateway", Str(OldGw)>>})

\* the mappings an interface entry can be: the name n2 with an optional
\* address (an old address comes with its gateway) and an optional ipv4
\* mapping; a name with a leading blank; a name newIps does not hold; values
\* that are not strings; a gateway alone
Entries ==
    { MkMap({<<"name", Str(<<"n2">>)>>} \cup a \cup i
            \cup (IF a = {<<"address", Str(OldAddr)>>}
                  THEN {<<"gateway", Str(OldGw)>>} ELSE {})) :
        a \in Opt("address", AddrVals), i \in Opt("ipv4", Ipv4Vals) }
    \cup { Iface(<<SP, "n2">>, OldAddr), Iface(<<"eth0">>, OldAddr),
           MkMap({<<"name", Num(1)>>, <<"address", Str(OldAddr)>>}),
           MkMap({<<"name", Str(<<"n2">>)>>, <<"address", Num(7)>>,
                  <<"gateway", Str(<<SP>> \o OldGw)>>}),
           MkMap({<<"name", Str(<<"n2">>)>>, <<"gateway", Str(N2Gw)>>}) }

NFDeploymentDoc(e) ==
    MkMap({<<"kind", Str(KindNFDeployment)>>,
           <<"spec", MkMap({<<"interfaces", List(<<e>>)>>})>>})

NADJsonDoc(e) ==
    MkMap({<<"kind", Str(KindNAD)>>,
           <<"spec", MkMap({<<"config", JStr(e, FALSE)>>})>>})

NADPlainDoc(e) ==
    MkMap({<<"kind", Str(KindNAD)>>,
           <<"spec", Map([k \in DOMAIN e.m \cup {"config"} |->
                            IF k = "config" THEN Str(<<"plain">>) ELSE e.m[k]])>>})

OtherDoc(e) ==
    MkMap({<<"kind", Str(<<"Config">>)>>, <<"interfaces", List(<<e>>)>>})

Docs ==
    UNION { {NFDeploymentDoc(e), NADJsonDoc(e), NADPlainDoc(e), OtherDoc(e)} :
            e \in Entries }

PathF1 == <<"w", "f1.yaml">>
PathF2 == <<"w", "f2.yaml">>
Paths == {PathF1, PathF2, PathF1 \o <<TmpSuffix>>, PathF2 \o <<TmpSuffix>>}

Target(file, kind) == [repo |-> <<"r">>, workdir |-> <<SP, "w">>, file |-> file, kind |-> kind]

SecondDoc == OtherDoc(MkMap({<<"name", Str(<<"n2">>)>>}))
F2Doc == NFDeploymentDoc(MkMap({<<"name", Str(<<"n2">>)>>, <<"address", Str(OldAddr)>>}))

\* the contents of the first file: every document alone, and some special texts
F1Contents ==
    { YamlText(<<d>>, FALSE) : d \in Docs }
    \cup { YamlText(<<F2Doc, SecondDoc>>, FALSE), YamlMarshal(F2Doc), Garbage, Missing,
           YamlText(<<>>, FALSE) }

\* the calls tried: the targets, the content of the second file, newIps
Scenarios ==
    { [targets |-> <<Target(<<"f1.yaml">>, k)>>, f2 |-> Missing, ips |-> ips] :
        k \in {Empty, KindNFDeployment, KindNAD}, ips \in IpsChoices }
    \cup { [targets |-> <<Target(<<"f2.yaml">>, Empty), Target(<<"f1.yaml">>, Empty)>>,
            f2 |-> c, ips |-> [k \in {<<"n2">>} |-> IPInfo(N2Addr, N2Gw)]] :
            c \in {Missing, YamlText(<<F2Doc>>, FALSE)} }
    \cup { [targets |-> <<>>, f2 |-> Missing,
            ips |-> [k \in {<<"n2">>} |-> IPInfo(N2Addr, N2Gw)]] }

NoCall == [made |-> FALSE, dry |-> FALSE, before |-> <<>>, results |-> <<>>,
           toolErr |-> FALSE]

-----------------------------------------------------------------------------
(* Git delivery idle: the values its variables keep while patch calls run *)

GitIdle ==
    /\ req = <<>>
    /\ hpc = "idle"
    /\ repos = <<>>
    /\ con = 0
    /\ nexti = 0
    /\ sem = 0
    /\ wk = <<>>
    /\ results = <<>>
    /\ disk = <<>>
    /\ cancelled = FALSE
    /\ askpass = "absent"
    /\ nextCommit = 0
    /\ disk0 = <<>>

\* no scan is called
NoScanOut == [made |-> FALSE]
ScanIdle ==
    /\ scan = [op |-> "none"]
    /\ scanOut = NoScanOut

-----------------------------------------------------------------------------
(* The patch specification: calls of manifest_patch_cucp_ips on the files *)

InitPatch ==
    /\ \E c1 \in F1Contents, sc \in Scenarios :
         /\ fs = [p \in Paths |-> IF p = PathF1 THEN c1
                                  ELSE IF p = PathF2 THEN sc.f2 ELSE Missing]
         /\ ptargets = sc.targets
         /\ newIps = sc.ips
    /\ last = NoCall
    /\ prev = NoCall
    /\ ncalls = 0
    /\ GitIdle
    /\ ScanIdle

\* one call of the tool
PatchCall ==
    /\ ncalls < MaxCalls
    /\ \E dry \in BOOLEAN :
       \E o \in ManifestPatchCucpIPsMany(fs, ptargets, newIps, dry) :
         /\ fs' = o.fs
         /\ last' = [made |-> TRUE, dry |-> dry, before |-> fs,
                     results |-> o.results, toolErr |-> o.toolErr]
         /\ prev' = last
    /\ ncalls' = ncalls + 1
    /\ UNCHANGED <<newIps, ptargets>>
    /\ UNCHANGED <<varsG, varsS>>

NextPatch == PatchCall

SpecPatch == InitPatch /\ [][NextPatch]_vars


-----------------------------------------------------------------------------
(* Properties of the patch engine *)

\* the file the k-th target of the calls names
TargetPath(k) == absJoin(ptargets[k].workdir, ptargets[k].file)

\* the last two calls both wrote (dryRun=false), with the same targets and
\* the same interface map, the second on the files the first left
AppliedTwice == prev.made /\ last.made /\ ~prev.dry /\ ~last.dry /\ ~last.toolErr

\* C1: applying patch-interfaces (dryRun=false) twice with identical targets
\* and interface map to the same on-disk document, whenever the first call
\* reports changed=true for a target the second call reports changed=false
\* for it, for every target kind and document shape.
C1_Idempotent ==
    AppliedTwice =>
        \A k \in DOMAIN last.results :
            prev.results[k].changed => ~last.results[k].changed

\* C2: after a call with dryRun=true every file on disk, the temp files
\* included, is what it was before the call, whatever changed flags and
\* errors the call reports.
C2_DryRunPure == (last.made /\ last.dry) => fs = last.before

\* a dry-run call that reported changed=true for a target and an error for
\* another target, or changed=true for its only target
C2_Witness ==
    /\ last.made /\ last.dry /\ fs = last.before
    /\ \E k \in DOMAIN last.results : last.results[k].changed
    /\ Len(last.results) = 2 => last.results[1].error # ""

\* C9: when a call with dryRun=false reports changed=true for a target, the
\* document parsed from the target's file after the call differs from the
\* document read from it before the call.
C9_ChangedMeansDiffers ==
    (last.made /\ ~last.dry) =>
        \A k \in DOMAIN last.results :
            last.results[k].changed =>
                YamlUnmarshal(fs[TargetPath(k)]) #
                    YamlUnmarshal(last.before[TargetPath(k)])

\* C10: a call with dryRun=true and the same call with dryRun=false run on
\* identical files report, for every target, the same changed flag and the
\* same error, unless the write of the target's file failed.
C10_DryRunSameReport ==
    (prev.made /\ last.made /\ prev.dry /\ ~last.dry /\ prev.before = last.before) =>
        \A k \in DOMAIN last.results :
            last.results[k].error # "write yaml" =>
                /\ last.results[k].changed = prev.results[k].changed
                /\ last.results[k].error = prev.results[k].error

\* a dry-run call and then the same call writing, on identical files, both
\* reporting changed=true for a target
C10_Witness ==
    /\ prev.made /\ last.made /\ prev.dry /\ ~last.dry /\ prev.before = last.before
    /\ \E k \in DOMAIN last.results :
         prev.results[k].changed /\ last.results[k].changed /\ fs # last.before


-----------------------------------------------------------------------------
(* Git delivery: names, URLs, working directories *)

\* strings.ToLower, and the characters sanitizeName keeps
Lower(tok) == IF tok = "A" THEN "a" ELSE IF tok = "B" THEN "b" ELSE tok
SafeTokens == {"a", "b", "c", "-", "repo"}

RECURSIVE TrimDashLeft(_)
TrimDashLeft(s) == IF s # <<>> /\ Head(s) = "-" THEN TrimDashLeft(Tail(s)) ELSE s

RECURSIVE TrimDashRight(_)
TrimDashRight(s) ==
    IF s # <<>> /\ s[Len(s)] = "-" THEN TrimDashRight(SubSeq(s, 1, Len(s) - 1)) ELSE s

\* `[^a-z0-9._-]+` replaced by "-": a run of unsafe characters gives one dash
RECURSIVE ReplaceUnsafe(_, _)
ReplaceUnsafe(s, inRun) ==
    IF s = <<>> THEN <<>>
    ELSE IF Lower(Head(s)) \in SafeTokens
         THEN <<Lower(Head(s))>> \o ReplaceUnsafe(Tail(s), FALSE)
         ELSE (IF inRun THEN <<>> ELSE <<"-">>) \o ReplaceUnsafe(Tail(s), TRUE)

sanitizeName(s) ==
    LET r == TrimDashRight(TrimDashLeft(ReplaceUnsafe(TrimSpace(s), FALSE)))
    IN  IF r = <<>> THEN <<"repo">> ELSE r

\* hashKey(url)[:8]: a digest of the trimmed URL.  The digest is kept as the
\* trimmed URL itself: distinct URLs give distinct keys.
hashKey(url) == TrimSpace(url)

\* filepath.Join(root, base + "__" + suffix)
WorkdirOf(repo) == sanitizeName(repo.name) \o <<"__">> \o hashKey(repo.url)

\* sameRepoURL(a, b)
NormalizeURL(u) == TrimSuffix(TrimSuffix(TrimSpace(u), "/"), ".git")
sameRepoURL(a, b) == NormalizeURL(a) = NormalizeURL(b)

ShaTokens == {"abc1234"}
\* looksLikeCommitSHA(ref)
looksLikeCommitSHA(ref) == Len(TrimSpace(ref)) = 1 /\ TrimSpace(ref)[1] \in ShaTokens

Branches == {"main", "dev"}
\* the branch a trimmed ref or branch parameter names ("main" when empty)
BranchOf(ref) == IF TrimSpace(ref) = Empty THEN "main" ELSE TrimSpace(ref)[1]

-----------------------------------------------------------------------------
(* The git repository in a working directory, and what each git command    *)
(* does to it.  Commits are numbers; 0 stands for no commit.               *)

\* the branches of the server every URL names: main at commit 1, dev at 2
ServerHeads == [b \in Branches |-> IF b = "main" THEN 1 ELSE 2]

\* the commit the SHA refs name: an ancestor of both tips
ShaCommit == [t \in ShaTokens |-> 3]

Repo(origin, cur, heads, dirty) ==
    [exists |-> TRUE, origin |-> origin, cur |-> cur, heads |-> heads, det |-> 0,
     dirty |-> dirty, remote |-> ServerHeads, shallow |-> FALSE]

NoRepo ==
    [exists |-> FALSE, origin |-> Empty, cur |-> "main",
     heads |-> [b \in Branches |-> 0], det |-> 0, dirty |-> FALSE,
     remote |-> [b \in Branches |-> 0], shallow |-> FALSE]

\* the commit HEAD names
HeadOf(r) == IF ~r.exists THEN 0 ELSE IF r.cur = "detached" THEN r.det ELSE r.heads[r.cur]

\* what a finished git process leaves: exit status, the output the caller
\* reads (a URL, a commit, whether the output is empty), and the directories
Outcome(ok, url, head, empty, d) ==
    [ok |-> ok, url |-> url, head |-> head, empty |-> empty, disk |-> d, killed |-> FALSE]

Fail(d) == Outcome(FALSE, Empty, 0, FALSE, d)
Done(d) == Outcome(TRUE, Empty, 0, TRUE, d)

\* a command that did not start because the context was done: no output
NotStarted(d) == Outcome(FALSE, Empty, 0, TRUE, d)

\* a process killed by the cancellation: an error, and the output it wrote
\* until then (for git status possibly nothing although the tree is dirty)
Killed(cmd, wd, d) ==
    { [Outcome(FALSE, Empty, 0, e, d) EXCEPT !.killed = TRUE] :
        e \in IF cmd = "status" /\ d[wd].exists /\ d[wd].dirty THEN BOOLEAN ELSE {TRUE} }

\* a command that runs to its end.  a: the arguments (url, branch, sha,
\* shatok, depth); fresh: the id a new commit gets
GitRun(cmd, wd, d, a, fresh) ==
    LET r == d[wd]
        Put(r2) == [d EXCEPT ![wd] = r2]
    IN
    CASE cmd = "clone" ->
           IF r.exists \/ (~a.sha /\ ServerHeads[a.branch] = 0) THEN {Fail(d)}
           ELSE LET b == IF a.sha THEN "main" ELSE a.branch IN
                { Fail(d),
                  Done(Put([exists |-> TRUE, origin |-> a.url, cur |-> b,
                            heads |-> [x \in Branches |->
                                         IF x = b THEN ServerHeads[b] ELSE 0],
                            det |-> 0, dirty |-> FALSE,
                            remote |-> [x \in Branches |->
                                          IF x = b THEN ServerHeads[b] ELSE 0],
                            shallow |-> a.depth > 0])) }
      [] cmd = "checkoutsha" ->
           IF r.exists /\ (~r.shallow \/ HeadOf(r) = ShaCommit[a.shatok])
           THEN {Done(Put([r EXCEPT !.cur = "detached", !.det = ShaCommit[a.shatok]]))}
           ELSE {Fail(d)}
      [] cmd = "geturl" ->
           IF r.exists /\ r.origin # Empty
           THEN {Outcome(TRUE, r.origin, 0, FALSE, d)} ELSE {Fail(d)}
      [] cmd = "fetch" ->
           IF r.exists THEN {Fail(d), Done(Put([r EXCEPT !.remote = ServerHeads]))}
           ELSE {Fail(d)}
      [] cmd = "checkout" ->
           IF r.exists /\ r.dirty /\ r.cur # a.branch /\ r.heads[a.branch] # 0
           THEN {Fail(d), Done(Put([r EXCEPT !.cur = a.branch]))}
           ELSE IF r.exists /\ r.heads[a.branch] # 0
           THEN {Done(Put([r EXCEPT !.cur = a.branch]))}
           ELSE IF r.exists /\ r.remote[a.branch] # 0
           THEN {Done(Put([r EXCEPT !.cur = a.branch,
                                    !.heads[a.branch] = r.remote[a.branch]]))}
           ELSE {Fail(d)}
      [] cmd = "checkoutB" ->
           IF r.exists /\ r.dirty /\ r.cur # a.branch /\ r.remote[a.branch] # 0
           THEN {Fail(d), Done(Put([r EXCEPT !.cur = a.branch,
                                             !.heads[a.branch] = r.remote[a.branch]]))}
           ELSE IF r.exists /\ r.remote[a.branch] # 0
           THEN {Done(Put([r EXCEPT !.cur = a.branch,
                                    !.heads[a.branch] = r.remote[a.branch]]))}
           ELSE {Fail(d)}
      [] cmd = "reset" ->
           IF r.exists /\ r.remote[a.branch] # 0
           THEN {Done(Put(IF r.cur = "detached"
                          THEN [r EXCEPT !.det = r.remote[a.branch], !.dirty = FALSE]
                          ELSE [r EXCEPT !.heads[r.cur] = r.remote[a.branch],
                                         !.dirty = FALSE]))}
           ELSE {Fail(d)}
      [] cmd = "revparse" ->
           IF HeadOf(r) # 0 THEN {Outcome(TRUE, Empty, HeadOf(r), FALSE, d)}
           ELSE {Fail(d)}
      [] cmd = "add" -> IF r.exists THEN {Done(d)} ELSE {Fail(d)}
      [] cmd = "status" ->
           IF r.exists THEN {Outcome(TRUE, Empty, 0, ~r.dirty, d)} ELSE {Fail(d)}
      [] cmd = "commit" ->
           IF r.exists /\ r.dirty
           THEN {Done(Put(IF r.cur = "detached"
                          THEN [r EXCEPT !.det = fresh, !.dirty = FALSE]
                          ELSE [r EXCEPT !.heads[r.cur] = fresh, !.dirty = FALSE]))}
           ELSE {Fail(d)}
      [] cmd = "push" ->
           IF r.exists /\ r.heads[a.branch] # 0
           THEN {Fail(d), Done(Put([r EXCEPT !.remote[a.branch] = r.heads[a.branch]]))}
           ELSE {Fail(d)}


-----------------------------------------------------------------------------
(* The per-repository workflows.  A position names the git command whose   *)
(* process is in flight; After gives the position the code reaches when     *)
(* that process ends, and the result so far.                                *)

DefaultCloneConcurrency == 4
DefaultCommitConcurrency == 3
DefaultDepth == 1

ZeroResult ==
    [name |-> Empty, url |-> Empty, workdir |-> Empty, head |-> 0, error |-> "",
     committed |-> FALSE, pushed |-> FALSE, updated |-> FALSE, exists |-> FALSE]

\* the git command a position runs
CmdOf(pos) ==
    CASE pos \in {"checkoutsha_new", "checkoutsha"} -> "checkoutsha"
      [] pos \in {"revparse", "revparse_noop", "revparse_final"} -> "revparse"
      [] OTHER -> pos

\* the arguments of the git commands of a request
ArgsOf(rq, target) ==
    [url |-> target.url,
     branch |-> IF rq.op = "clone" THEN BranchOf(rq.ref) ELSE BranchOf(rq.branch),
     sha |-> rq.op = "clone" /\ looksLikeCommitSHA(rq.ref),
     shatok |-> IF rq.op = "clone" /\ looksLikeCommitSHA(rq.ref)
                THEN TrimSpace(rq.ref)[1] ELSE "abc1234",
     depth |-> IF rq.depth <= 0 THEN DefaultDepth ELSE rq.depth]

Goto(pos, res) == [pc |-> pos, res |-> res]

\* cloneOrOpenOneNamed up to its first git command
CloneBegin(rq, repo, d) ==
    LET wd  == WorkdirOf(repo)
        res == [ZeroResult EXCEPT !.name = repo.name, !.url = repo.url,
                                  !.workdir = wd, !.exists = d[wd].exists]
    IN  IF ~d[wd].exists THEN Goto("clone", res) ELSE Goto("geturl", res)

\* head, err := gitHeadSHA(ctx, workdir); if err != nil
HeadErrorIgnored(o) == FALSE
HeadError(o) == ~o.ok

\* the origin check: if err == nil && origin != "" { if !sameRepoURL(...) }
OriginMismatchNever(o, url) == FALSE
OriginMismatch(o, url) == o.ok /\ o.url # Empty /\ ~sameRepoURL(o.url, url)

\* cloneOrOpenOneNamed after the git command at pos ended with outcome o
CloneAfter(pos, o, res, rq) ==
    LET sha  == looksLikeCommitSHA(rq.ref)
        co   == IF sha THEN "checkoutsha" ELSE "checkout"
    IN
    CASE pos = "clone" ->
           IF ~o.ok THEN Goto("done", [res EXCEPT !.error = "git clone failed"])
           ELSE IF sha THEN Goto("checkoutsha_new", res)
           ELSE Goto("revparse", [res EXCEPT !.updated = TRUE])
      [] pos = "checkoutsha_new" ->
           IF ~o.ok THEN Goto("done", [res EXCEPT !.error = "git checkout failed"])
           ELSE Goto("revparse", [res EXCEPT !.updated = TRUE])
      [] pos = "geturl" ->
           IF OriginMismatch(o, res.url)
           THEN Goto("done", [res EXCEPT !.error = "origin mismatch"])
           ELSE IF rq.pull THEN Goto("fetch", res) ELSE Goto(co, res)
      [] pos = "fetch" ->
           IF ~o.ok THEN Goto("done", [res EXCEPT !.error = "git fetch failed"])
           ELSE Goto(co, [res EXCEPT !.updated = TRUE])
      [] pos = "checkoutsha" ->
           IF ~o.ok THEN Goto("done", [res EXCEPT !.error = "git checkout failed"])
           ELSE Goto("revparse", res)
      [] pos = "checkout" ->
           IF ~o.ok THEN Goto("checkoutB", res)
           ELSE IF rq.pull THEN Goto("reset", res) ELSE Goto("revparse", res)
      [] pos = "checkoutB" ->
           IF rq.pull THEN Goto("reset", res) ELSE Goto("revparse", res)
      [] pos = "reset" -> Goto("revparse", res)
      [] pos = "revparse" ->
           IF HeadError(o) THEN Goto("done", [res EXCEPT !.error = "read HEAD failed"])
           ELSE Goto("done", [res EXCEPT !.head = o.head])

\* commitPushOne up to its first git command
CommitBegin(rq, t) ==
    LET res == [ZeroResult EXCEPT !.name = TrimSpace(t.name),
                                  !.workdir = cleanPath(t.workdir)]
    IN  IF res.workdir = Empty
        THEN Goto("done", [res EXCEPT !.error = "empty workdir"])
        ELSE Goto("checkout", res)

\* strings.TrimSpace(head) of what rev-parse printed: a commit, or, when it
\* failed, its error text (-1) or nothing (0)
HeadText(o) == IF o.ok THEN o.head ELSE IF o.empty THEN 0 ELSE -1

\* if strings.TrimSpace(out) == "": nothing to commit
StatusEmptyNever(o) == FALSE
StatusEmpty(o) == o.empty

\* commitPushOne after the git command at pos ended with outcome o
CommitAfter(pos, o, res) ==
    CASE pos = "checkout" -> Goto("add", res)
      [] pos = "add" ->
           IF ~o.ok THEN Goto("done", [res EXCEPT !.error = "git add"])
           ELSE Goto("status", res)
      [] pos = "status" ->
           IF StatusEmpty(o) THEN Goto("revparse_noop", res) ELSE Goto("commit", res)
      [] pos = "revparse_noop" -> Goto("done", [res EXCEPT !.head = HeadText(o)])
      [] pos = "commit" ->
           IF ~o.ok THEN Goto("done", [res EXCEPT !.error = "git commit"])
           ELSE Goto("push", [res EXCEPT !.committed = TRUE])
      [] pos = "push" ->
           IF ~o.ok THEN Goto("done", [res EXCEPT !.error = "git push"])
           ELSE Goto("revparse_final", [res EXCEPT !.pushed = TRUE])
      [] pos = "revparse_final" -> Goto("done", [res EXCEPT !.head = HeadText(o)])

After(pos, o, res, rq) ==
    IF rq.op = "clone" THEN CloneAfter(pos, o, res, rq) ELSE CommitAfter(pos, o, res)

\* the rest of a workflow once the context is done: exec.CommandContext
\* starts no process, every remaining command fails at once
RECURSIVE FailThrough(_, _, _)
FailThrough(g, rq, d) ==
    IF g.pc = "done" THEN g
    ELSE FailThrough(After(g.pc, NotStarted(d), g.res, rq), rq, d)

-----------------------------------------------------------------------------
(* The two batch handlers: validation, the admission semaphore, one worker  *)
(* per repository, the wait for all workers.                                *)

Min(a, b) == IF a < b THEN a ELSE b

Positions ==
    {"clone", "checkoutsha_new", "geturl", "fetch", "checkoutsha", "checkout",
     "checkoutB", "reset", "revparse", "add", "status", "revparse_noop",
     "commit", "push", "revparse_final"}

\* a worker: its position, its result so far, the git processes it started,
\* those that ran to their end and exited with an error, the position at
\* which the cancellation killed its process, and whether its git status ran
\* and printed nothing
WorkerIdle ==
    [pc |-> "idle", res |-> ZeroResult, ran |-> <<>>, failed |-> <<>>, killed |-> "",
     clean |-> FALSE]

\* the repos loop of GitCloneOrOpenMany: entries with an empty name or URL
\* are skipped
RECURSIVE FilterRepos(_)
FilterRepos(rs) ==
    IF rs = <<>> THEN <<>>
    ELSE LET r == [Head(rs) EXCEPT !.name = TrimSpace(@), !.url = TrimSpace(@)]
         IN  IF r.name = Empty \/ r.url = Empty THEN FilterRepos(Tail(rs))
             ELSE <<r>> \o FilterRepos(Tail(rs))

\* a capacity taken from the request as it is, only capped by n
ConcurrencyAsRequested(requested, default, n) ==
    IF requested > n THEN n ELSE requested

\* the concurrency of a batch of n
Concurrency(requested, default, n) ==
    LET c == IF requested <= 0 THEN default ELSE requested
    IN  IF c > n THEN n ELSE c

\* sem <- struct{}{} proceeds while the channel of capacity con is not full
DispatchGuardNone(s, c) == TRUE
DispatchGuard(s, c) == s < c

\* where the deferred os.Remove(p) of the helper file takes effect
RemoveAtWorkerEnd(when) == when = "worker"
RemoveAskPassAt(when) == when = "return"

StartBatch(rs, c) ==
    /\ repos' = rs
    /\ con' = c
    /\ results' = [i \in 1..Len(rs) |-> ZeroResult]
    /\ wk' = [i \in 1..Len(rs) |-> WorkerIdle]
    /\ nexti' = 1
    /\ sem' = 0
    /\ hpc' = "dispatch"

Reject ==
    /\ hpc' = "rejected"
    /\ UNCHANGED <<repos, con, results, wk, nexti, sem>>

\* GitCloneOrOpenMany up to the dispatch loop
CloneStart ==
    /\ hpc = "idle" /\ req.op = "clone"
    /\ LET rs == FilterRepos(req.targets)
       IN  IF Len(rs) = 0 THEN Reject
           ELSE StartBatch(rs, Concurrency(req.conc, DefaultCloneConcurrency, Len(rs)))
    /\ UNCHANGED <<req, disk, cancelled, askpass, nextCommit, disk0>>
    /\ UNCHANGED <<varsP, varsS>>

\* GitCommitPushMany up to the dispatch loop; writeAskPassScript gives the
\* helper, or fails with no file or with a partly written one
CommitStart ==
    /\ hpc = "idle" /\ req.op = "commit"
    /\ IF Len(req.targets) = 0 \/ TrimSpace(req.msg) = Empty
       THEN Reject /\ UNCHANGED askpass
       ELSE \/ /\ askpass' = IF req.creds THEN "present" ELSE askpass
               /\ StartBatch(req.targets,
                     Concurrency(req.conc, DefaultCommitConcurrency, Len(req.targets)))
            \/ /\ req.creds
               /\ askpass' \in {"absent", "partial"}
               /\ Reject
    /\ UNCHANGED <<req, disk, cancelled, nextCommit, disk0>>
    /\ UNCHANGED <<varsP, varsS>>

\* one turn of the dispatch loop: take a semaphore slot, start the goroutine
Dispatch ==
    /\ hpc = "dispatch" /\ nexti <= Len(repos)
    /\ DispatchGuard(sem, con)
    /\ sem' = sem + 1
    /\ wk' = [wk EXCEPT ![nexti].pc = "spawned"]
    /\ nexti' = nexti + 1
    /\ UNCHANGED <<req, hpc, repos, con, results, disk, cancelled, askpass,
                   nextCommit, disk0>>
    /\ UNCHANGED <<varsP, varsS>>

\* what a worker that reached g leaves: at "done" it stores its result in its
\* slot and gives its semaphore slot back
Advance(i, w) ==
    /\ wk' = [wk EXCEPT ![i] = w]
    /\ IF w.pc = "done"
       THEN /\ results' = [results EXCEPT ![i] = w.res]
            /\ sem' = sem - 1
            /\ askpass' = IF RemoveAskPassAt("worker") THEN "absent" ELSE askpass
       ELSE UNCHANGED <<results, sem, askpass>>

WithGoto(w, g) == [w EXCEPT !.pc = g.pc, !.res = g.res]

\* the goroutine starts: the workflow up to its first git command
WorkerBegin(i) ==
    /\ wk[i].pc = "spawned"
    /\ Advance(i, WithGoto(wk[i], IF req.op = "clone"
                                  THEN CloneBegin(req, repos[i], disk)
                                  ELSE CommitBegin(req, repos[i])))
    /\ UNCHANGED <<req, hpc, repos, con, nexti, disk, cancelled, nextCommit, disk0>>
    /\ UNCHANGED <<varsP, varsS>>

\* the git command at the worker's position runs to its end; with the
\* context already done it and every later command fail without starting
WorkerStep(i) ==
    /\ wk[i].pc \in Positions
    /\ LET w   == wk[i]
           cmd == CmdOf(w.pc)
           wd  == w.res.workdir
       IN  IF cancelled
           THEN /\ Advance(i, WithGoto(w, FailThrough(Goto(w.pc, w.res), req, disk)))
                /\ UNCHANGED <<disk, nextCommit>>
           ELSE \E o \in GitRun(cmd, wd, disk, ArgsOf(req, repos[i]), nextCommit) :
                  /\ disk' = o.disk
                  /\ nextCommit' = IF cmd = "commit" /\ o.ok THEN nextCommit + 1
                                   ELSE nextCommit
                  /\ Advance(i, [WithGoto(w, After(w.pc, o, w.res, req)) EXCEPT
                                   !.ran = Append(@, w.pc),
                                   !.failed = IF o.ok THEN @ ELSE Append(@, w.pc),
                                   !.clean = @ \/ (cmd = "status" /\ o.ok /\ o.empty)])
    /\ UNCHANGED <<req, hpc, repos, con, nexti, cancelled, disk0>>
    /\ UNCHANGED <<varsP, varsS>>

\* the context is cancelled while the git process of worker i runs: the
\* process is killed, the rest of the workflow runs with the context done
CancelDuring(i) ==
    /\ ~cancelled /\ wk[i].pc \in Positions
    /\ cancelled' = TRUE
    /\ LET w == wk[i]
       IN  \E o \in Killed(CmdOf(w.pc), w.res.workdir, disk) :
             Advance(i, [WithGoto(w, FailThrough(After(w.pc, o, w.res, req), req, disk))
                           EXCEPT !.ran = Append(@, w.pc), !.killed = w.pc])
    /\ UNCHANGED <<req, hpc, repos, con, nexti, disk, nextCommit, disk0>>
    /\ UNCHANGED <<varsP, varsS>>

\* the context is cancelled while no git process is looked at
Cancel ==
    /\ ~cancelled /\ hpc \in {"idle", "dispatch"}
    /\ cancelled' = TRUE
    /\ UNCHANGED <<req, hpc, repos, con, nexti, sem, wk, results, disk, askpass,
                   nextCommit, disk0>>
    /\ UNCHANGED <<varsP, varsS>>

\* wg.Wait() is over: the handler returns the results; its deferred calls run
Return ==
    /\ hpc = "dispatch" /\ nexti > Len(repos)
    /\ \A i \in 1..Len(repos) : wk[i].pc = "done"
    /\ hpc' = "returned"
    /\ askpass' = IF RemoveAskPassAt("return") THEN "absent" ELSE askpass
    /\ UNCHANGED <<req, repos, con, nexti, sem, wk, results, disk, cancelled,
                   nextCommit, disk0>>
    /\ UNCHANGED <<varsP, varsS>>

-----------------------------------------------------------------------------
(* The requests and working directories the git specification starts from  *)

MaxTargets == 5

UrlA == <<"h/a">>
UrlAGit == <<"h/a", ".git">>
UrlASlash == <<"h/a", "/">>
UrlB == <<"h/b">>

NamedRepo(name, url) == [name |-> name, url |-> url, workdir |-> Empty]
RepoA == NamedRepo(<<"A">>, UrlA \o <<SP>>)
RepoB == NamedRepo(<<"b", "?", "c">>, UrlB)
RepoNoName == NamedRepo(<<SP>>, UrlB)
RepoNoURL == NamedRepo(<<"c">>, Empty)

WdA == WorkdirOf(RepoA)
WdB == WorkdirOf(RepoB)
Workdirs == {WdA, WdB}

CommitTarget(name, workdir) == [name |-> name, url |-> Empty, workdir |-> workdir]
TargetA == CommitTarget(<<"A">>, <<SP, "'">> \o WdA \o <<"'">>)
TargetB == CommitTarget(<<"b">>, WdB)
TargetNoWorkdir == CommitTarget(<<"c">>, <<SP>>)

\* k copies of a target
Copies(t, k) == [i \in 1..k |-> t]

Request(op, targets, conc) ==
    [op |-> op, targets |-> targets, conc |-> conc, creds |-> FALSE,
     msg |-> <<"m">>, branch |-> Empty, ref |-> Empty, pull |-> FALSE, depth |-> 0]

OnMain == [b \in Branches |-> IF b = "main" THEN 1 ELSE 0]
OnBoth == [b \in Branches |-> IF b = "main" THEN 1 ELSE 4]

\* working directories a commit-push call finds
CommitDirs ==
    { Repo(UrlA, "main", OnMain, FALSE), Repo(UrlA, "main", OnMain, TRUE),
      Repo(UrlA, "dev", OnBoth, FALSE), Repo(UrlA, "dev", OnBoth, TRUE),
      NoRepo }

\* working directories a clone-or-open call finds
CloneDirs ==
    { NoRepo, Repo(UrlAGit, "main", OnMain, FALSE), Repo(UrlASlash, "dev", OnBoth, TRUE),
      Repo(UrlB, "main", OnMain, FALSE), Repo(Empty, "main", OnMain, FALSE) }

DiskOf(a, b) == [w \in Workdirs |-> IF w = WdA THEN a ELSE b]

CloneScenarios ==
    { [req |-> [Request("clone", <<RepoA>>, c) EXCEPT !.ref = ref, !.pull = pull,
                                                      !.depth = dp],
       disk |-> DiskOf(a, NoRepo)] :
        c \in {0}, ref \in {Empty, <<"dev", SP>>, <<"abc1234">>}, pull \in BOOLEAN,
        dp \in {0, 2}, a \in CloneDirs }
    \cup
    { [req |-> [Request("clone", ts, c) EXCEPT !.pull = pull],
       disk |-> DiskOf(a, NoRepo)] :
        c \in {0, 1}, pull \in BOOLEAN,
        ts \in {<<RepoA, RepoB>>, <<RepoNoName, RepoA>>, <<RepoA, RepoA>>},
        a \in {NoRepo, Repo(UrlB, "main", OnMain, FALSE)} }
    \cup
    { [req |-> Request("clone", ts, 0), disk |-> DiskOf(NoRepo, NoRepo)] :
        ts \in {<<>>, <<RepoNoName>>, <<RepoNoURL, RepoNoName>>} }
    \cup
    { [req |-> Request("clone", Copies(RepoA, k), 0),
       disk |-> DiskOf(Repo(UrlB, "main", OnMain, FALSE), NoRepo)] :
        k \in 3..MaxTargets }

CommitScenarios ==
    { [req |-> [Request("commit", <<TargetA>>, 0) EXCEPT !.branch = br, !.creds = cr],
       disk |-> DiskOf(a, NoRepo)] :
        br \in {Empty, <<"dev">>}, cr \in BOOLEAN, a \in CommitDirs }
    \cup
    { [req |-> [Request("commit", ts, c) EXCEPT !.creds = cr],
       disk |-> DiskOf(a, Repo(UrlB, "main", OnMain, TRUE))] :
        c \in {0, 1}, cr \in BOOLEAN,
        ts \in {<<TargetA, TargetB>>, <<TargetNoWorkdir, TargetA>>, <<TargetA, TargetA>>},
        a \in {Repo(UrlA, "main", OnMain, TRUE), Repo(UrlA, "dev", OnBoth, FALSE)} }
    \cup
    { [req |-> [Request("commit", ts, 0) EXCEPT !.msg = m],
       disk |-> DiskOf(NoRepo, NoRepo)] :
        ts \in {<<>>, <<TargetA>>}, m \in {<<SP>>, <<"m">>} }
    \cup
    { [req |-> [Request("commit", Copies(TargetNoWorkdir, k), 0) EXCEPT !.creds = TRUE],
       disk |-> DiskOf(NoRepo, NoRepo)] :
        k \in 3..MaxTargets }

PatchIdle ==
    /\ fs = [p \in Paths |-> Missing]
    /\ newIps = <<>>
    /\ ptargets = <<>>
    /\ last = NoCall
    /\ prev = NoCall
    /\ ncalls = 0

InitGit ==
    /\ \E sc \in CloneScenarios \cup CommitScenarios :
         /\ req = sc.req
         /\ disk = sc.disk
         /\ disk0 = sc.disk
    /\ hpc = "idle"
    /\ repos = <<>>
    /\ con = 0
    /\ nexti = 0
    /\ sem = 0
    /\ wk = <<>>
    /\ results = <<>>
    /\ cancelled = FALSE
    /\ askpass = "absent"
    /\ nextCommit = 10
    /\ PatchIdle
    /\ ScanIdle

NextGit ==
    \/ CloneStart
    \/ CommitStart
    \/ Dispatch
    \/ \E i \in 1..Len(repos) : WorkerBegin(i)
    \/ \E i \in 1..Len(repos) : WorkerStep(i)
    \/ \E i \in 1..Len(repos) : CancelDuring(i)
    \/ Cancel
    \/ Return

SpecGit == InitGit /\ [][NextGit]_vars

\* the steps of the handler and of its goroutines; the cancellation is the
\* caller's and is left out
ProgramStep ==
    \/ CloneStart
    \/ CommitStart
    \/ Dispatch
    \/ \E i \in 1..Len(repos) : WorkerBegin(i)
    \/ \E i \in 1..Len(repos) : WorkerStep(i)
    \/ Return

\* the calls the termination of the handlers is checked on: commits of every
\* number of targets up to MaxTargets with a requested concurrency that is
\* negative, zero, small and above the number of targets; clones of up to
\* three targets with the same concurrencies and of every number of targets
\* one at a time; and batches of two whole workflows
LiveScenarios ==
    { [req |-> Request("clone", Copies(RepoA, k), c),
       disk |-> DiskOf(Repo(UrlB, "main", OnMain, FALSE), NoRepo)] :
        k \in 1..3, c \in {-1, 0, 2, 5} }
    \cup
    { [req |-> Request("clone", Copies(RepoA, k), 1),
       disk |-> DiskOf(Repo(UrlB, "main", OnMain, FALSE), NoRepo)] :
        k \in 1..MaxTargets }
    \cup
    { [req |-> [Request("commit", Copies(TargetNoWorkdir, k), c) EXCEPT !.creds = TRUE],
       disk |-> DiskOf(NoRepo, NoRepo)] :
        k \in 1..MaxTargets, c \in {-1, 0, 2, MaxTargets + 2} }
    \cup
    { [req |-> Request("clone", <<RepoA, RepoB>>, c), disk |-> DiskOf(NoRepo, NoRepo)] :
        c \in {-1, 1} }
    \cup
    { [req |-> Request("commit", <<TargetA, TargetB>>, c),
       disk |-> DiskOf(Repo(UrlA, "main", OnMain, TRUE),
                       Repo(UrlB, "main", OnMain, TRUE))] :
        c \in {-1, 1} }

InitGitLive ==
    /\ \E sc \in LiveScenarios :
         /\ req = sc.req
         /\ disk = sc.disk
         /\ disk0 = sc.disk
    /\ hpc = "idle"
    /\ repos = <<>>
    /\ con = 0
    /\ nexti = 0
    /\ sem = 0
    /\ wk = <<>>
    /\ results = <<>>
    /\ cancelled = FALSE
    /\ askpass = "absent"
    /\ nextCommit = 10
    /\ PatchIdle
    /\ ScanIdle

\* the Go scheduler runs every runnable goroutine and every git process
\* terminates: a step of the program that stays possible is taken
SpecGitLive == InitGitLive /\ [][NextGit]_vars /\ WF_vars(ProgramStep)

-----------------------------------------------------------------------------
(* Properties of the git batch handlers *)

InProgress == {i \in DOMAIN wk : wk[i].pc \notin {"idle", "done"}}
Finished == {i \in DOMAIN wk : wk[i].pc = "done"}

\* C3: in commit-push, a target whose git status printed nothing has no
\* commit and no push run, and its result has committed=false, pushed=false,
\* no error and the head the repository had before the call.
C3_CommitNoop ==
    req.op = "commit" =>
        \A i \in Finished :
            wk[i].clean =>
                /\ \A k \in DOMAIN wk[i].ran : wk[i].ran[k] \notin {"commit", "push"}
                /\ ~wk[i].res.committed /\ ~wk[i].res.pushed
                /\ wk[i].res.error = ""
                /\ wk[i].res.head = HeadOf(disk0[wk[i].res.workdir])

\* C4: in clone-or-open, a target whose working directory existed with a
\* readable origin that differs from the requested URL after normalisation
\* gets an error, and no git command other than the reading of the origin
\* ran for it: no fetch, checkout, reset or rev-parse.
C4_IdentityGuard ==
    req.op = "clone" =>
        \A i \in Finished :
            LET r == wk[i].res
                o == disk[r.workdir].origin
            IN  (r.exists /\ o # Empty /\ NormalizeURL(o) # NormalizeURL(r.url)) =>
                    /\ r.error # ""
                    /\ r.head = 0 /\ ~r.updated
                    /\ wk[i].ran \in {<<>>, <<"geturl">>}
                    /\ disk[r.workdir] = disk0[r.workdir]

\* a returned batch of two: the first target stopped by the guard after the
\* origin was read, the second cloned and resolved
C4_Witness ==
    /\ req.op = "clone" /\ hpc = "returned" /\ Len(results) = 2
    /\ results[1].error = "origin mismatch" /\ wk[1].ran = <<"geturl">>
    /\ results[2].error = "" /\ results[2].head # 0 /\ results[2].updated

\* C5: the workflows in progress, and so the git processes running, never
\* number more than min(requested concurrency, number of targets), the
\* default standing for a requested concurrency <= 0.
C5_ConcurrencyBound ==
    LET default   == IF req.op = "clone" THEN DefaultCloneConcurrency
                     ELSE DefaultCommitConcurrency
        requested == IF req.conc <= 0 THEN default ELSE req.conc
    IN  Cardinality(InProgress) <= Min(requested, Len(req.targets))

\* the dispatch loop held back: as many workflows in progress as the
\* concurrency allows, fewer than the targets, one target not yet started;
\* with the default concurrency, and with a requested one
C5_Witness ==
    /\ hpc = "dispatch" /\ nexti <= Len(repos)
    /\ Cardinality(InProgress) = con
    /\ \/ req.conc = 0 /\ con < Len(req.targets)
       \/ req.conc = 1 /\ Len(repos) = 2 /\ wk[1].pc \in Positions

\* C6: a batch that passed validation returns as many results as the request
\* has items, items with an empty name, URL or working directory included.
C6_OneResultPerItem ==
    hpc = "returned" => Len(results) = Len(req.targets)

\* C7: a target whose git process was running when the context was cancelled
\* has a non-empty error in its result, and the returned results are the ones
\* the workers stored.
C7_CancelledHasError ==
    /\ \A i \in Finished : wk[i].killed # "" => wk[i].res.error # ""
    /\ hpc = "returned" => \A i \in DOMAIN results : results[i] = wk[i].res

Ran(log) == { log[k] : k \in 1..Len(log) }

\* the workers of a clone-or-open call for a commit hash that found no
\* working directory and whose git clone succeeded
ShaCloned ==
    { i \in DOMAIN wk : /\ req.op = "clone" /\ looksLikeCommitSHA(req.ref)
                        /\ ~wk[i].res.exists
                        /\ "clone" \in Ran(wk[i].ran) \ Ran(wk[i].failed)
                        /\ wk[i].killed # "clone" }

\* C14: a clone for a commit hash into an absent working directory is a
\* full clone, and it is followed by the checkout of that hash.
C14_ShaCloneIsFull ==
    \A i \in ShaCloned :
        /\ ~disk[wk[i].res.workdir].shallow
        /\ (wk[i].pc = "done" /\ ~cancelled) => "checkoutsha_new" \in Ran(wk[i].ran)

\* a clone-or-open worker reaches the end of its workflow with this step
CloneEnds(i) ==
    /\ req.op = "clone" /\ i \in DOMAIN wk /\ wk[i].pc # "done"
    /\ i \in DOMAIN wk' /\ wk'[i].pc = "done"

\* C15: every result of clone-or-open has a head or an error, and a result
\* without an error has the head the working directory has when the
\* workflow ends.
C15_HeadResolved ==
    /\ [](\A i \in Finished :
            req.op = "clone" => (wk[i].res.head # 0 \/ wk[i].res.error # ""))
    /\ [][\A i \in 1..Len(repos) :
            (CloneEnds(i) /\ wk'[i].res.error = "") =>
                /\ wk'[i].res.head # 0
                /\ wk'[i].res.head = HeadOf(disk'[wk'[i].res.workdir])]_vars

\* a clone-or-open of an existing directory on another branch ended without
\* an error: its head is that of the branch asked for
C15_Witness ==
    \E i \in Finished :
        /\ req.op = "clone" /\ wk[i].res.exists /\ wk[i].res.error = ""
        /\ BranchOf(req.ref) = "dev" /\ disk0[wk[i].res.workdir].cur = "main"
        /\ "revparse" \in Ran(wk[i].ran)
        /\ wk[i].res.head = ServerHeads["dev"]
        /\ HeadOf(disk[wk[i].res.workdir]) = ServerHeads["dev"]

\* C16: a workflow starts each git command at most once, and a workflow in
\* which a git command failed ends with an error in its result.
C16_FailureIsTheError ==
    \A i \in DOMAIN wk :
        /\ \A j, k \in 1..Len(wk[i].ran) : wk[i].ran[j] = wk[i].ran[k] => j = k
        /\ (wk[i].pc = "done" /\ wk[i].failed # <<>>) => wk[i].res.error # ""

\* the workers whose git process is in flight
Running == {i \in DOMAIN wk : wk[i].pc \in Positions}

\* C22: no two workers of a batch that run at the same time work on the
\* same working directory.
C22_DisjointWorkdirs ==
    \A i, j \in Running : i # j => wk[i].res.workdir # wk[j].res.workdir

\* C23: a commit-push result with committed=true has its new commit on the
\* requested branch of the working directory, and with pushed=true the
\* remote branch is at that commit.  Commits made during a call are the
\* numbers from 10 on.
C23_CommitOnRequestedBranch ==
    \A i \in Finished :
        (req.op = "commit" /\ wk[i].res.committed) =>
            LET r == disk[wk[i].res.workdir]
                b == BranchOf(req.branch)
            IN  /\ r.heads[b] >= 10
                /\ wk[i].res.pushed => r.remote[b] = r.heads[b]

\* C24: a clone-or-open result for a working directory that existed before
\* the call has no error only if the directory's origin could be read and is, normalised,
\* the requested URL.
C24_ReuseNeedsOrigin ==
    \A i \in Finished :
        (req.op = "clone" /\ wk[i].res.exists /\ disk0[wk[i].res.workdir].exists
           /\ wk[i].res.error = "") =>
            /\ disk0[wk[i].res.workdir].origin # Empty
            /\ sameRepoURL(disk0[wk[i].res.workdir].origin, wk[i].res.url)

\* the git command at pos of worker i ran to its end and succeeded
Succeeded(i, pos) ==
    pos \in Ran(wk[i].ran) \ Ran(wk[i].failed) /\ wk[i].killed # pos

C29_SlotPerTarget ==
    /\ [](hpc = "returned" =>
            /\ \A i \in DOMAIN wk : wk[i].pc = "done"
            /\ Len(results) = Len(req.targets)
            /\ \A i \in DOMAIN results :
                 /\ results[i] = wk[i].res
                 /\ results[i].name = TrimSpace(req.targets[i].name))
    /\ [][\A i \in DOMAIN results :
            (i \in DOMAIN results' /\ results'[i] # results[i]) =>
                wk[i].pc # "done" /\ wk'[i].pc = "done" /\ results'[i] = wk'[i].res]_vars

\* C30: a call that passed validation returns, whatever the number of
\* targets and the requested concurrency, and also after a cancellation.
C30_EventuallyReturns == (hpc = "dispatch") ~> (hpc = "returned")

\* returned calls of three or more targets: one with a negative requested
\* concurrency that was cancelled, one with a concurrency above the number
\* of targets
C30_Witness ==
    /\ hpc = "returned" /\ Len(repos) >= 3
    /\ \/ req.conc < 0 /\ cancelled
       \/ req.conc > Len(repos)

-----------------------------------------------------------------------------
(* scan_manifests: the walk over the working directories, the documents of *)
(* every YAML file, the topology of every matching document                 *)

DefaultMaxFiles == 5000
DefaultKinds ==
    {<<"NFDeployment">>, <<"NetworkAttachmentDefinition">>, <<"NFConfig">>, <<"Config">>}

\* toSet(xs): the trimmed, non-empty strings
toSet(xs) == { TrimSpace(xs[i]) : i \in {j \in 1..Len(xs) : TrimSpace(xs[j]) # Empty} }

\* the text of a file: lines "---" and, between them, chunks of YAML: blank
\* lines, text yaml.Unmarshal rejects, or the text of one mapping
Sep == [t |-> "sep"]
BlankLines == [t |-> "blank"]
BadYaml == [t |-> "bad"]
Chunk(obj) == [t |-> "obj", obj |-> obj]

\* splitYAMLDocuments(s): the parts between the "---" lines, at least one
RECURSIVE SplitFrom(_, _)
SplitFrom(text, cur) ==
    IF text = <<>> THEN <<cur>>
    ELSE IF Head(text).t = "sep" THEN <<cur>> \o SplitFrom(Tail(text), <<>>)
    ELSE SplitFrom(Tail(text), Append(cur, Head(text)))
splitYAMLDocuments(text) == SplitFrom(text, <<>>)

\* strings.TrimSpace(doc) == "": nothing but blank lines
IsBlankDoc(part) == \A i \in 1..Len(part) : part[i].t = "blank"

\* u.GetAPIVersion()
GetAPIVersion(obj) ==
    IF Has(obj, "apiVersion") /\ obj.m["apiVersion"].t = "str"
    THEN obj.m["apiVersion"].s ELSE Empty

\* parseYAMLToUnstructured(b): the object, or an error for text that does
\* not parse or has no kind or no apiVersion
parseYAMLToUnstructured(part) ==
    LET objs == SelectSeq(part, LAMBDA c : c.t = "obj")
    IN  IF (\E i \in 1..Len(part) : part[i].t = "bad") \/ Len(objs) # 1
        THEN [ok |-> FALSE, obj |-> Map(<<>>)]
        ELSE IF GetKind(objs[1].obj) = Empty \/ GetAPIVersion(objs[1].obj) = Empty
        THEN [ok |-> FALSE, obj |-> Map(<<>>)]
        ELSE [ok |-> TRUE, obj |-> objs[1].obj]

\* a bool parameter as encoding/json decodes it: false when the field is
\* omitted
DecodeBool(field) == field = "true"

\* includeTopology := true; if params.Arguments.IncludeTopology == false { includeTopology = false }
IncludeTopology(field) == IF DecodeBool(field) = FALSE THEN FALSE ELSE TRUE

NoRaw == [t |-> "nil"]

FoundObject(repo, file, kind, ifaces, flat, nad, raw) ==
    [repo |-> repo, file |-> file, kind |-> kind, networkInterfaces |-> ifaces,
     cidrs |-> flat.cidrs, ips |-> flat.ips,
     nadConfigCidrs |-> nad.cidrs, nadConfigIps |-> nad.ips, raw |-> raw]

SortedAddrs(a) == [cidrs |-> SortStrings(a.cidrs), ips |-> SortStrings(a.ips)]

\* the NAD spec.config extraction: the possible (c2, i2)
NADConfigAddrs(obj, kind) ==
    IF kind = KindNAD /\ Has(obj, "spec") /\ IsMap(obj.m["spec"])
       /\ Has(obj.m["spec"], "config") /\ IsString(obj.m["spec"].m["config"])
       /\ TextOf(obj.m["spec"].m["config"]) # Empty
       /\ IsJSONConfig(obj.m["spec"].m["config"])
    THEN { SortedAddrs(a) :
             a \in extractAllCIDRsAndIPv4Strings(obj.m["spec"].m["config"].v) }
    ELSE {NoAddrs}

\* one document of a file: the possible lists of objects found (none or one)
ScanDocument(repo, rel, part, wantKinds, topo, raw) ==
    IF IsBlankDoc(part) THEN {<<>>}
    ELSE LET pr   == parseYAMLToUnstructured(part)
             kind == TrimSpace(GetKind(pr.obj))
         IN  IF ~pr.ok \/ kind = Empty \/ kind \notin wantKinds THEN {<<>>}
             ELSE IF ~topo
             THEN {<<FoundObject(repo, rel, kind, <<>>, NoAddrs, NoAddrs,
                                 IF raw THEN pr.obj ELSE NoRaw)>>}
             ELSE { <<FoundObject(repo, rel, kind, ifs, SortedAddrs(flat), nad,
                                  IF raw THEN pr.obj ELSE NoRaw)>> :
                      ifs \in extractNetworkInterfaces(pr.obj),
                      flat \in extractAllCIDRsAndIPv4Strings(pr.obj),
                      nad \in NADConfigAddrs(pr.obj, kind) }

\* for _, doc := range docs
RECURSIVE ScanDocuments(_, _, _, _, _, _, _)
ScanDocuments(F, repo, rel, parts, wantKinds, topo, raw) ==
    IF parts = <<>> THEN F
    ELSE ScanDocuments(
           UNION { { f \o g : g \in ScanDocument(repo, rel, Head(parts), wantKinds,
                                                 topo, raw) } : f \in F },
           repo, rel, Tail(parts), wantKinds, topo, raw)

\* strings.ToLower(filepath.Ext(d.Name())) is ".yaml" or ".yml"
LowerExt(ext) == IF ext = ".YML" THEN ".yml" ELSE ext
IsYamlExt(ext) == LowerExt(ext) \in {".yaml", ".yml"}

\* what filepath.WalkDir hands to the callback, in its order: an error for
\* the entry, or a file with its extension, whether os.ReadFile succeeds,
\* and its text
WalkError(rel) == [err |-> TRUE, rel |-> rel, ext |-> "", readable |-> FALSE, text |-> <<>>]
File(rel, ext, readable, text) ==
    [err |-> FALSE, rel |-> rel, ext |-> ext, readable |-> readable, text |-> text]

\* the callback of filepath.WalkDir over the entries of one repository: the
\* possible (found, errors)
RECURSIVE ScanEntries(_, _, _, _, _, _, _, _, _)
ScanEntries(F, errors, count, entries, repo, maxFiles, wantKinds, topo, raw) ==
    IF entries = <<>> THEN { [found |-> f, errors |-> errors] : f \in F }
    ELSE LET e    == Head(entries)
             rest == Tail(entries)
         IN  IF e.err
             THEN ScanEntries(F, Append(errors, <<"walk error", e.rel>>), count, rest,
                              repo, maxFiles, wantKinds, topo, raw)
             ELSE IF ~IsYamlExt(e.ext)
             THEN ScanEntries(F, errors, count, rest, repo, maxFiles, wantKinds, topo, raw)
             ELSE IF count + 1 > maxFiles
             THEN { [found |-> f, errors |-> errors] : f \in F }
             ELSE IF ~e.readable
             THEN ScanEntries(F, Append(errors, <<"read error", e.rel>>), count + 1, rest,
                              repo, maxFiles, wantKinds, topo, raw)
             ELSE ScanEntries(
                    ScanDocuments(F, repo, e.rel, splitYAMLDocuments(e.text),
                                  wantKinds, topo, raw),
                    errors, count + 1, rest, repo, maxFiles, wantKinds, topo, raw)

\* the repos loop of RepoScanManifestsMany: trimmed, entries with an empty
\* name or workdir skipped
RECURSIVE FilterWorkdirs(_)
FilterWorkdirs(rs) ==
    IF rs = <<>> THEN <<>>
    ELSE LET r == [name |-> TrimSpace(Head(rs).name),
                   workdir |-> TrimQuotes(TrimSpace(Head(rs).workdir))]
         IN  IF r.name = Empty \/ r.workdir = Empty THEN FilterWorkdirs(Tail(rs))
             ELSE <<r>> \o FilterWorkdirs(Tail(rs))

RepoScanResult(r, fe) ==
    [repo |-> r.name, workdir |-> r.workdir, found |-> fe.found, errors |-> fe.errors]

\* for _, r := range repos: the possible result lists
RECURSIVE ScanRepos(_, _, _, _, _, _, _)
ScanRepos(R, rs, tree, maxFiles, wantKinds, topo, raw) ==
    IF rs = <<>> THEN R
    ELSE LET r  == Head(rs)
             FE == ScanEntries({<<>>}, <<>>, 0, tree[r.workdir], r.name, maxFiles,
                               wantKinds, topo, raw)
         IN  ScanRepos(UNION { { out \o <<RepoScanResult(r, fe)>> : fe \in FE } :
                               out \in R },
                       Tail(rs), tree, maxFiles, wantKinds, topo, raw)

\* the handler of scan_manifests: rejected, or the possible results
RepoScanManifestsMany(rq, tree) ==
    LET rs        == FilterWorkdirs(rq.repos)
        wantKinds == IF toSet(rq.kinds) = {} THEN DefaultKinds ELSE toSet(rq.kinds)
        maxFiles  == IF rq.maxFiles <= 0 THEN DefaultMaxFiles ELSE rq.maxFiles
    IN  IF Len(rs) = 0 THEN {[rejected |-> TRUE, results |-> <<>>]}
        ELSE { [rejected |-> FALSE, results |-> out] :
                 out \in ScanRepos({<<>>}, rs, tree, maxFiles, wantKinds,
                                   IncludeTopology(rq.includeTopology),
                                   DecodeBool(rq.includeRaw)) }

-----------------------------------------------------------------------------
(* The cluster topology scan over the listed resources *)

\* the flat lists of the scan with the addresses of one more object:
\* if !seenCIDR[c] { AllCIDRs = append(AllCIDRs, c); seenCIDR[c] = true }
AddFlat(all, a) ==
    [cidrs |-> AppendUnseen(all.cidrs, a.cidrs), ips |-> AppendUnseen(all.ips, a.ips)]

\* the spec.config extraction of the cluster scan: the possible (c2, i2)
ClusterNADConfigAddrs(obj) ==
    IF Has(obj, "spec") /\ IsMap(obj.m["spec"])
       /\ Has(obj.m["spec"], "config") /\ IsString(obj.m["spec"].m["config"])
       /\ TextOf(obj.m["spec"].m["config"]) # Empty
       /\ IsJSONConfig(obj.m["spec"].m["config"])
    THEN extractAllCIDRsAndIPv4Strings(obj.m["spec"].m["config"].v)
    ELSE {NoAddrs}

\* for _, nad := range nadList.Items / for _, nf := range nfList.Items
RECURSIVE ScanItems(_, _, _)
ScanItems(N, items, isNAD) ==
    IF items = <<>> THEN N
    ELSE LET obj == Head(items)
         IN  ScanItems(
               UNION { { [ifaces |-> n.ifaces \o ifs,
                          all |-> AddFlat(AddFlat(n.all, flat), cfg)] :
                           ifs \in extractNetworkInterfaces(obj),
                           flat \in extractAllCIDRsAndIPv4Strings(obj),
                           cfg \in IF isNAD THEN ClusterNADConfigAddrs(obj)
                                   ELSE {NoAddrs} } :
                       n \in N },
               Tail(items), isNAD)

\* the deduplication of the interfaces by name: the lists of a name seen
\* again are appended to the lists kept for it
RECURSIVE MergeByName(_, _)
MergeByName(ifaceMap, list) ==
    IF list = <<>> THEN ifaceMap
    ELSE LET iface == Head(list)
             kept  == IF iface.name \in DOMAIN ifaceMap
                      THEN [cidrs |-> ifaceMap[iface.name].cidrs \o iface.cidrs,
                            ips   |-> ifaceMap[iface.name].ips \o iface.ips]
                      ELSE [cidrs |-> iface.cidrs, ips |-> iface.ips]
         IN  MergeByName([n \in DOMAIN ifaceMap \cup {iface.name} |->
                             IF n = iface.name THEN kept ELSE ifaceMap[n]],
                         Tail(list))

\* the interfaces of the map, their lists sorted, in the order of the names
RECURSIVE SortedByName(_, _)
SortedByName(ifaceMap, i) ==
    IF i > Len(NameOrder) THEN <<>>
    ELSE LET n == NameOrder[i]
         IN  (IF n \in DOMAIN ifaceMap
              THEN <<NetworkInterface(n, SortedAddrs(ifaceMap[n]))>> ELSE <<>>)
             \o SortedByName(ifaceMap, i + 1)

\* scanClusterTopologyWithClients: a list that failed is skipped; the
\* possible network infos
scanClusterTopologyWithClients(nadList, nfList, podCIDRs, svcCIDRs) ==
    LET N0 == {[ifaces |-> <<>>, all |-> NoAddrs]}
        N1 == IF nadList.ok THEN ScanItems(N0, nadList.items, TRUE) ELSE N0
        N2 == IF nfList.ok THEN ScanItems(N1, nfList.items, FALSE) ELSE N1
    IN  { [networkInterfaces |-> SortedByName(MergeByName(<<>>, n.ifaces), 1),
           allCidrs |-> SortStrings(n.all.cidrs), allIps |-> SortStrings(n.all.ips),
           podCidrs |-> podCIDRs, serviceCidrs |-> svcCIDRs] : n \in N2 }

-----------------------------------------------------------------------------
(* The documents, files and requests the scan specification starts from *)

K8sDoc(kind, spec) ==
    MkMap({<<"apiVersion", Str(<<"v1">>)>>, <<"kind", Str(kind)>>, <<"spec", spec>>})

IfaceG(n, a, g) ==
    MkMap({<<"name", Str(n)>>, <<"address", Str(a)>>, <<"gateway", Str(g)>>})

Interfaces(l) == MkMap({<<"interfaces", List(l)>>})

DocN2 == K8sDoc(<<"NFConfig">>, Interfaces(<<IfaceG(<<"n2">>, N2Addr, N2Gw)>>))
\* n2 again, with another address and the same gateway
DocN2Other == K8sDoc(<<"NFConfig">>, Interfaces(<<IfaceG(<<"n2">>, N3Addr, N2Gw)>>))
\* the mapping deep in the document, under keys that name no interface
DocDeep ==
    K8sDoc(<<"Config">>,
           MkMap({<<"a", List(<<MkMap({<<"b", IfaceG(<<"n3">>, N3Addr, N3Gw)>>})>>)>>}))
\* the same CIDR in two leaves, and twice in one leaf
DocRepeated ==
    K8sDoc(<<"NFDeployment">>,
           Interfaces(<<MkMap({<<"name", Str(<<"n2">>)>>, <<"address", Str(N2Addr)>>,
                               <<"gateway", Str(N2Gw)>>,
                               <<"subnet", Str(N2Addr \o <<SP>> \o N2Addr)>>})>>))
\* two mappings of one name
DocTwice ==
    K8sDoc(<<"NFDeployment">>,
           Interfaces(<<IfaceG(<<"n2">>, N2Addr, N2Gw), IfaceG(<<"n2">>, N3Addr, N3Gw)>>))
\* a sibling that holds another CIDR
DocSibling ==
    K8sDoc(<<"Config">>,
           Interfaces(<<MkMap({<<"name", Str(<<"n2">>)>>, <<"address", Str(N2Addr)>>,
                               <<"gateway", Str(N2Gw)>>, <<"cidr", Str(OldAddr)>>})>>))
\* addresses under a 5G key
DocPath ==
    K8sDoc(<<"Config">>,
           MkMap({<<"n2", MkMap({<<"address", Str(N2Addr)>>, <<"n3_ip", Str(N3Gw)>>})>>}))
\* an address under a key that does not look like an address key
DocOtherKey ==
    K8sDoc(<<"Config">>,
           Interfaces(<<MkMap({<<"name", Str(<<"n2">>)>>, <<"address", Str(N2Addr)>>,
                               <<"gateway", Str(N2Gw)>>, <<"peer", Str(OldGw)>>})>>))
DocNAD == K8sDoc(KindNAD, MkMap({<<"config", JStr(IfaceG(<<"n2">>, OldAddr, OldGw), FALSE)>>}))
DocNADOther ==
    K8sDoc(KindNAD, MkMap({<<"config", JStr(IfaceG(<<"n2">>, OldAddr, N2Gw), FALSE)>>,
                           <<"ipAddress", Str(OldGw)>>, <<"name", Str(<<"eth0">>)>>}))
DocBlankName == K8sDoc(<<"Config">>, Interfaces(<<IfaceG(<<SP, "n2">>, N2Addr, N2Gw)>>))
DocNoName == K8sDoc(<<"Config">>, Interfaces(<<IfaceG(Empty, N2Addr, N2Gw)>>))
DocNoApiVersion == NFDeploymentDoc(IfaceG(<<"n2">>, N2Addr, N2Gw))
DocOtherKind == K8sDoc(<<"Deployment">>, Interfaces(<<IfaceG(<<"n2">>, N2Addr, N2Gw)>>))

ScanDocs ==
    {DocN2, DocN2Other, DocDeep, DocRepeated, DocTwice, DocSibling, DocPath, DocNAD,
     DocNADOther, DocBlankName, DocNoName, DocNoApiVersion, DocOtherKind, DocOtherKey}

RepoWorkdir(name, workdir) == [name |-> name, workdir |-> workdir]
W1 == <<"w1">>
W2 == <<"w2">>

ScanRequest(rs, kinds, maxFiles, topo) ==
    [repos |-> rs, kinds |-> kinds, maxFiles |-> maxFiles, includeTopology |-> topo,
     includeRaw |-> "true"]

ScanTree(e1, e2) == [w \in {W1, W2} |-> IF w = W1 THEN e1 ELSE e2]

\* a working directory with an entry the walk fails on, a file that cannot
\* be read, a file with a document that does not parse between two that do,
\* a file that is no YAML, and a file with two documents
MixedEntries ==
    << WalkError(<<"x">>),
       File(<<"a.yaml">>, ".yaml", FALSE, <<Chunk(DocN2)>>),
       File(<<"b.YML">>, ".YML", TRUE,
            <<Chunk(DocN2), Sep, BadYaml, Sep, BlankLines, Sep, Chunk(DocNoApiVersion),
              Sep, Chunk(DocTwice)>>),
       File(<<"c.txt">>, ".txt", TRUE, <<Chunk(DocN2)>>),
       File(<<"d.yaml">>, ".yaml", TRUE, <<Chunk(DocN2), Sep, Chunk(DocN2Other)>>) >>

RepoScanScenarios ==
    { [op |-> "repo",
       req |-> ScanRequest(<<RepoWorkdir(<<"r1">>, <<SP, "\"">> \o W1 \o <<"\"">>)>>,
                           kinds, 0, topo),
       tree |-> ScanTree(<<File(<<"f.yaml">>, ".yaml", TRUE, <<Chunk(d)>>)>>, <<>>)] :
        d \in ScanDocs, topo \in {"omitted", "true", "false"},
        kinds \in {<<>>, <<<<"NFConfig", SP>>, Empty, KindNAD>>} }
    \cup
    { [op |-> "repo",
       req |-> [ScanRequest(rs, <<>>, mf, topo) EXCEPT !.includeRaw = raw],
       tree |-> ScanTree(MixedEntries,
                         <<File(<<"e.yml">>, ".yml", TRUE, <<Chunk(DocDeep)>>)>>)] :
        rs \in {<<RepoWorkdir(<<"r1">>, W1), RepoWorkdir(<<"r2">>, W2)>>,
                <<RepoWorkdir(<<SP>>, W2), RepoWorkdir(<<"r1">>, W1)>>,
                <<RepoWorkdir(<<"r2">>, <<"'", "'">>)>>, <<>>},
        mf \in {0, 1, 2}, topo \in {"omitted", "true"}, raw \in {"omitted", "true"} }

ItemList(ok, items) == [ok |-> ok, items |-> items]

ClusterScanScenarios ==
    { [op |-> "cluster", nadList |-> ItemList(nok, nads), nfList |-> ItemList(fok, nfs),
       podCIDRs |-> <<OldAddr[1]>>, svcCIDRs |-> <<>>] :
        nok \in BOOLEAN, fok \in BOOLEAN,
        nads \in {<<>>, <<DocNAD>>, <<DocNAD, DocNADOther>>},
        nfs \in {<<DocN2>>, <<DocN2, DocN2Other>>, <<DocN2, DocTwice>>, <<DocRepeated>>,
                 <<DocDeep, DocPath>>} }

InitScan ==
    /\ scan \in RepoScanScenarios \cup ClusterScanScenarios
    /\ scanOut = NoScanOut
    /\ PatchIdle
    /\ GitIdle

NoNet == [networkInterfaces |-> <<>>, allCidrs |-> <<>>, allIps |-> <<>>,
          podCidrs |-> <<>>, serviceCidrs |-> <<>>]

\* one call of scan_manifests
RepoScanCall ==
    /\ scan.op = "repo" /\ ~scanOut.made
    /\ \E o \in RepoScanManifestsMany(scan.req, scan.tree) :
         scanOut' = [made |-> TRUE, rejected |-> o.rejected, results |-> o.results,
                     net |-> NoNet]
    /\ UNCHANGED <<scan, varsP, varsG>>

\* one topology scan of a cluster
ClusterScanCall ==
    /\ scan.op = "cluster" /\ ~scanOut.made
    /\ \E n \in scanClusterTopologyWithClients(scan.nadList, scan.nfList,
                                               scan.podCIDRs, scan.svcCIDRs) :
         scanOut' = [made |-> TRUE, rejected |-> FALSE, results |-> <<>>, net |-> n]
    /\ UNCHANGED <<scan, varsP, varsG>>

NextScan == RepoScanCall \/ ClusterScanCall

SpecScan == InitScan /\ [][NextScan]_vars

-----------------------------------------------------------------------------
(* Properties of the scans and of the topology extractor *)

NoDup(l) == \A i, j \in 1..Len(l) : i # j => l[i] # l[j]
Elems(l) == { l[i] : i \in 1..Len(l) }

\* the objects a repository scan returned, over all repositories
FoundObjects ==
    IF scan.op = "repo" /\ scanOut.made
    THEN UNION { Elems(scanOut.results[i].found) : i \in 1..Len(scanOut.results) }
    ELSE {}

\* C11: interfaces of one name exposed by several documents of a scan batch
\* come out as one binding of that name, and no binding lists an address
\* twice; for a repository of scan_manifests and for the cluster scan.
C11_MergedBinding ==
    scanOut.made =>
        /\ \A r \in 1..Len(scanOut.results) :
             LET found == scanOut.results[r].found
                 named == { <<i, j>> \in (1..Len(found)) \X (1..Len(NameOrder)) :
                              j <= Len(found[i].networkInterfaces) }
             IN  \A p, q \in named :
                   found[p[1]].networkInterfaces[p[2]].name
                     = found[q[1]].networkInterfaces[q[2]].name => p = q
        /\ LET ifs == scanOut.net.networkInterfaces
           IN  /\ \A i, j \in 1..Len(ifs) : ifs[i].name = ifs[j].name => i = j
               /\ \A i \in 1..Len(ifs) : NoDup(ifs[i].cidrs) /\ NoDup(ifs[i].ips)

\* C12: every binding the extractor returns for a document lists each CIDR
\* and each IPv4 string once, and so do the flat lists of the document, of
\* its NAD config and of the cluster scan.
C12_NoDuplicates ==
    /\ \A fo \in FoundObjects :
         /\ NoDup(fo.cidrs) /\ NoDup(fo.ips)
         /\ NoDup(fo.nadConfigCidrs) /\ NoDup(fo.nadConfigIps)
         /\ \A b \in Elems(fo.networkInterfaces) : NoDup(b.cidrs) /\ NoDup(b.ips)
    /\ scanOut.made => NoDup(scanOut.net.allCidrs) /\ NoDup(scanOut.net.allIps)

\* the document with one CIDR in two leaves and twice in one leaf, scanned:
\* its binding and its flat list hold the CIDR once
C12_Witness ==
    \E fo \in FoundObjects :
        /\ fo.raw = DocRepeated
        /\ fo.cidrs = N2Addr
        /\ \E b \in Elems(fo.networkInterfaces) : b.name = <<"n2">> /\ b.cidrs = N2Addr

\* the mappings of a document
RECURSIVE MapsIn(_)
MapsIn(v) ==
    CASE v.t = "map" -> {v} \cup UNION { MapsIn(v.m[k]) : k \in DOMAIN v.m }
      [] v.t = "seq" -> UNION { MapsIn(v.l[i]) : i \in 1..Len(v.l) }
      [] OTHER -> {}

\* a mapping with a name, an address holding one CIDR and a gateway holding
\* one IPv4 string
IsNamedInterface(m) ==
    /\ Has(m, "name") /\ m.m["name"].t = "str" /\ m.m["name"].s # Empty
    /\ Has(m, "address") /\ m.m["address"].t = "str"
    /\ Len(m.m["address"].s) = 1 /\ m.m["address"].s[1] \in CidrTokens
    /\ Has(m, "gateway") /\ m.m["gateway"].t = "str"
    /\ Len(m.m["gateway"].s) = 1 /\ m.m["gateway"].s[1] \in Ipv4Tokens

\* the objects returned with their topology and their document
FoundWithTopology ==
    { fo \in FoundObjects : scan.req.includeTopology = "true" /\ fo.raw # NoRaw }

YamlFiles(workdir) ==
    { e \in Elems(scan.tree[workdir]) : ~e.err /\ IsYamlExt(e.ext) }

\* the documents of a file that are not blank and do not parse
FailedParts(e) ==
    { part \in Elems(splitYAMLDocuments(e.text)) :
        ~IsBlankDoc(part) /\ ~parseYAMLToUnstructured(part).ok }

\* C17: in scan_manifests a file that cannot be read and a document that
\* does not parse each add a warning naming the file to the repository's
\* result, and the documents that do parse are still reported.
C17_FailuresAreWarned ==
    (scan.op = "repo" /\ scanOut.made /\ scan.req.maxFiles = 0) =>
        \A i \in 1..Len(scanOut.results) :
            LET r == scanOut.results[i]
            IN  \A e \in YamlFiles(r.workdir) :
                  /\ ~e.readable =>
                       \E w \in Elems(r.errors) : w = <<"read error", e.rel>>
                  /\ (e.readable /\ FailedParts(e) # {}) =>
                       \E w \in Elems(r.errors) : w[2] = e.rel
                  /\ e.readable =>
                       \A part \in Elems(splitYAMLDocuments(e.text)) :
                          LET pr == parseYAMLToUnstructured(part)
                          IN  (pr.ok /\ GetKind(pr.obj) \in DefaultKinds
                                 /\ scan.req.kinds = <<>>) =>
                                \E fo \in Elems(r.found) :
                                    fo.file = e.rel /\ fo.kind = GetKind(pr.obj)

\* C18: a scan_manifests request that omits includeTopology returns what
\* the same request with includeTopology true returns.
C18_TopologyByDefault ==
    (scan.op = "repo" /\ scanOut.made /\ scan.req.includeTopology = "omitted") =>
        \E o \in RepoScanManifestsMany([scan.req EXCEPT !.includeTopology = "true"],
                                       scan.tree) :
            o.rejected = scanOut.rejected /\ o.results = scanOut.results

\* C27: when a mapping gets an interface name, every string value of the
\* mapping that holds a CIDR or an IPv4 string is in the binding of that
\* name, whatever its key.
C27_AllSiblingsAttributed ==
    \A fo \in FoundWithTopology :
        \A m \in { x \in MapsIn(fo.raw) : IsNamedInterface(x) } :
            \E b \in Elems(fo.networkInterfaces) :
                /\ b.name = m.m["name"].s
                /\ \A k \in DOMAIN m.m :
                     m.m[k].t = "str" =>
                        /\ Elems(cidrReFindAll(m.m[k].s)) \subseteq Elems(b.cidrs)
                        /\ Elems(ipv4ReFindAll(m.m[k].s)) \subseteq Elems(b.ips)

-----------------------------------------------------------------------------
(* Properties of the patch engine on the shape of the documents *)

\* the leaves of a document with their paths; the JSON object a string
\* holds is entered under the step "{json}"
RECURSIVE Leaves(_)
Leaves(v) ==
    CASE v.t = "map" ->
           UNION { { <<(<<k>> \o l[1]), l[2]>> : l \in Leaves(v.m[k]) } : k \in DOMAIN v.m }
      [] v.t = "seq" ->
           UNION { { <<(<<i>> \o l[1]), l[2]>> : l \in Leaves(v.l[i]) } :
                   i \in 1..Len(v.l) }
      [] v.t = "jstr" -> { <<(<<"{json}">> \o l[1]), l[2]>> : l \in Leaves(v.v) }
      [] OTHER -> {<<(<<>>), v>>}

\* the key paths of a document: the paths of its leaves and their prefixes
KeyPaths(v) ==
    UNION { { SubSeq(l[1], 1, n) : n \in 1..Len(l[1]) } : l \in Leaves(v) }

\* the targets of the last call whose file held a document before the call
\* and holds one after it
PatchedTargets ==
    { k \in DOMAIN last.results :
        /\ last.made /\ ~last.toolErr
        /\ last.before[TargetPath(k)].parses /\ fs[TargetPath(k)].parses }

DocBefore(k) == YamlUnmarshal(last.before[TargetPath(k)])
DocAfter(k) == YamlUnmarshal(fs[TargetPath(k)])

C20_OrderIndependent ==
    \A k \in DOMAIN ptargets :
        (last.made /\ ~readYAMLFile(last.before, TargetPath(k)).err) =>
            Cardinality(PatchDocument(readYAMLFile(last.before, TargetPath(k)).obj,
                                      ptargets[k].kind, newIps)) = 1

\* C21: a call that writes a target file holding several documents leaves
\* every document other than the first, patched one in the file, unchanged.
C21_OtherDocumentsKept ==
    (last.made /\ ~last.dry /\ ~last.toolErr) =>
        \A k \in DOMAIN last.results :
            LET before == last.before[TargetPath(k)]
                after  == fs[TargetPath(k)]
            IN  (before.parses /\ Len(before.docs) >= 2) =>
                    /\ after.parses
                    /\ Len(after.docs) = Len(before.docs)
                    /\ \A j \in 2..Len(before.docs) : after.docs[j] = before.docs[j]

\* a mapping named after an interface of the map with a string address or
\* gateway, its own or that of its ipv4 mapping, that is not the desired one
NeedsPatch(m) ==
    /\ Has(m, "name") /\ m.m["name"].t = "str" /\ TextOf(m.m["name"]) \in DOMAIN newIps
    /\ LET ip == newIps[TextOf(m.m["name"])]
           Differs(p, key, want) ==
               Has(p, key) /\ p.m[key].t = "str" /\ want # Empty /\ p.m[key].s # want
       IN  \/ Differs(m, "address", ip.address)
           \/ Differs(m, "gateway", ip.gateway)
           \/ /\ Has(m, "ipv4")
              /\ \/ Differs(m.m["ipv4"], "address", ip.address)
                 \/ Differs(m.m["ipv4"], "gateway", ip.gateway)

\* C26: whatever the kind of the target document, when one of its mappings
\* is named after an interface of the map and has a differing address or
\* gateway, the call reports changed=true for the target (or an error).
C26_PatchedWhateverKind ==
    (last.made /\ ~last.toolErr) =>
        \A k \in DOMAIN last.results :
            LET rd == readYAMLFile(last.before, TargetPath(k))
            IN  (~rd.err /\ \E m \in MapsIn(rd.obj) : NeedsPatch(m)) =>
                    last.results[k].changed \/ last.results[k].error # ""

\* C28: after a call every target path holds the complete content it had
\* before the call or the complete text of the patched document, also when
\* the write of the temp file or the rename failed; a target whose write
\* failed has an error in its result and its file unchanged.
C28_AtomicWrite ==
    last.made =>
        \A k \in DOMAIN last.results :
            LET p  == TargetPath(k)
                rd == readYAMLFile(last.before, p)
            IN  /\ \/ fs[p] = last.before[p]
                   \/ /\ ~rd.err
                      /\ \E s \in PatchDocument(rd.obj, ptargets[k].kind, newIps) :
                           fs[p] = YamlMarshal(s.d)
                /\ last.results[k].error = "write yaml" => fs[p] = last.before[p]
                /\ (fs[p] # last.before[p]) => last.results[k].error = ""

\* a write that failed after it left a cut temp file: the target has the
\* error and its file is what it was
C28_Witness ==
    /\ last.made /\ ~last.dry
    /\ \E k \in DOMAIN last.results :
         /\ last.results[k].error = "write yaml"
         /\ fs[TargetPath(k)] = last.before[TargetPath(k)]
         /\ fs[TargetPath(k)].parses
         /\ fs[TargetPath(k) \o <<TmpSuffix>>] = Garbage

=============================================================================
